---- MODULE Spec2Model ----
(***************************************************************************)
(* Webhook ingestion and payment-state reconciliation of the EuPago plugin *)
(* (eupago/views.py, eupago/payment.py).                                   *)
(*                                                                         *)
(* Strings that the code searches or splits are sequences of chunks        *)
(* (<<"EVT1", "-P-", "1">> is "EVT1-P-1"); a JSON object is a function     *)
(* from keys to such strings, a nested object being flattened to dotted    *)
(* keys ("transaction.status").  HMAC-SHA256 and AES-256-CBC are symbolic: *)
(* a signature names the key, the message and the encoding it was made     *)
(* with, a ciphertext names the key, the IV and the plaintext.             *)
(***************************************************************************)
EXTENDS Integers, Sequences, FiniteSets, TLC

\* ------------------------------------------------------------------------
\* Bounds
\* ------------------------------------------------------------------------

\* Number of inbound requests of one behaviour.
MaxDeliveries == 2

\* Number of notifications of one series (SpecSeries).
MaxSeries == 3

\* Deliveries that precede the request under redelivery (SpecRedeliver).
MaxPrior == 1

\* Number of times that request is delivered again (SpecRedeliver).
MaxRepeats == 2

\* Webhook deliveries next to the other flows of the plugin (SpecFlows).
MaxFlowDeliveries == 1

\* Deliveries under each value of the X-Signature header (SpecHeaders).
MaxSigned == 1

\* Notifications of p1 and p2 under each status (SpecOutcomes).
MaxOutcomes == 2

\* Notifications that precede a lookup (SpecScan).
MaxScanDeliveries == 1

\* Calls of process_webhook_payment_update in a row (SpecUpdate).
MaxUpdates == 2

\* Requests of every method and body kind (SpecFormat).
MaxFormatDeliveries == 2

\* ------------------------------------------------------------------------
\* JSON objects
\* ------------------------------------------------------------------------

EmptyStr == <<>>

EmptyDict == [k \in {} |-> EmptyStr]

NestedKeys == {"transaction.identifier", "transaction.identificador",
               "transaction.reference", "transaction.referencia", "transaction.status"}

\* The top-level key a (dotted) key belongs to.
TopOf(k) == IF k \in NestedKeys THEN "transaction" ELSE k

TopKeys(d) == {TopOf(k) : k \in DOMAIN d}

\* dict.get(k), with None and '' both read as the empty string.
Get(d, k) == IF k \in DOMAIN d THEN d[k] ELSE EmptyStr

\* a or b
OrElse(a, b) == IF a # EmptyStr THEN a ELSE b

\* {**a, **b}: b's top-level keys replace a's.
Merge(a, b) ==
    LET keep == {k \in DOMAIN a : TopOf(k) \notin TopKeys(b)}
    IN  [k \in keep \cup DOMAIN b |-> IF k \in DOMAIN b THEN b[k] ELSE a[k]]

\* timezone.now().isoformat()
NowStamp == <<"now">>

\* needle in haystack, for strings.
IsInfix(needle, hay) ==
    \E i \in 0..(Len(hay) - Len(needle)) :
        \A j \in 1..Len(needle) : hay[i + j] = needle[j]

\* str(needle) in json.dumps(d)
Occurs(needle, d) == \E k \in DOMAIN d : IsInfix(needle, d[k])

\* str.lower() on the status tokens.
LowerTok(t) ==
    CASE t = "Paid" -> "paid"
      [] t = "PAID" -> "paid"
      [] t = "Success" -> "success"
      [] t = "Failed" -> "failed"
      [] t = "Cancelled" -> "cancelled"
      [] t = "Expired" -> "expired"
      [] t = "Pending" -> "pending"
      [] t = "Sucesso" -> "sucesso"
      [] t = "Falhado" -> "falhado"
      [] t = "Cancelado" -> "cancelado"
      [] t = "Canceled" -> "canceled"
      [] t = "Expirado" -> "expirado"
      [] t = "Bogus" -> "bogus"
      [] OTHER -> t

Lower(s) == [i \in 1..Len(s) |-> LowerTok(s[i])]

\* ------------------------------------------------------------------------
\* Payments (host ORM rows)
\* ------------------------------------------------------------------------

PAYMENT_STATE_CREATED == "created"
PAYMENT_STATE_PENDING == "pending"
PAYMENT_STATE_CONFIRMED == "confirmed"
PAYMENT_STATE_FAILED == "failed"
PAYMENT_STATE_CANCELED == "canceled"
PAYMENT_STATE_REFUNDED == "refunded"

Payments == {"p1", "p2", "p3", "p4"}

NoPayment == "none"

\* order__code, local_id, provider, organizer and creation rank (higher is newer).
\* newer counts the payments of the plugin's providers created after the row that
\* are not listed in Payments: p4 is an old payment of the order of p1, with
\* fifty such payments between it and the others.
PaymentRow ==
    [p \in Payments |->
        CASE p = "p1" -> [code |-> <<"EVT1">>, local_id |-> <<"1">>,
                          provider |-> "eupago_mbway", organizer |-> "o1", created |-> 1, newer |-> 0]
          [] p = "p2" -> [code |-> <<"J03CS">>, local_id |-> <<"1">>,
                          provider |-> "eupago_multibanco", organizer |-> "o2", created |-> 2, newer |-> 0]
          [] p = "p3" -> [code |-> <<"EVT1">>, local_id |-> <<"2">>,
                          provider |-> "banktransfer", organizer |-> "o1", created |-> 3, newer |-> 0]
          [] p = "p4" -> [code |-> <<"EVT1">>, local_id |-> <<"3">>,
                          provider |-> "eupago_cc", organizer |-> "o1", created |-> 0, newer |-> 50]]

\* provider__startswith='eupago'
EuPagoFamily(p) ==
    PaymentRow[p].provider \in {"eupago_cc", "eupago_mbway", "eupago_multibanco",
                                "eupago_payshop", "eupago_paybylink",
                                "eupago_mb_creditcard", "eupago_mbway_new"}

\* The identifier sent to the gateway at creation: {order code}-P-{local id}.
IdentifierOf(p) == PaymentRow[p].code \o <<"-P-">> \o PaymentRow[p].local_id

\* ------------------------------------------------------------------------
\* State
\* ------------------------------------------------------------------------

VARIABLES
    db,            \* OrderPayment rows: db[p] = [state, info]
    settings,      \* organizer-scoped key-value store: settings[o][key]
    environ,       \* os.environ['EUPAGO_WEBHOOK_SECRET'] ("" when unset)
    secret_file,   \* content of webhook_secret.txt ("" when the file is missing)
    confirmCalls,  \* per payment: invocations of the host's confirm()
    failCalls,     \* per payment: invocations of the host's fail()
    request,       \* the last inbound request
    response,      \* the HTTP response to it
    located,       \* the payment the locator returned for it (NoPayment if none)
    deliveries,    \* number of requests handled so far
    workers,       \* concurrent deliveries in flight (SpecConc)
    probe          \* the last application of one function to given arguments (SpecPure)

vars == <<db, settings, environ, secret_file, confirmCalls, failCalls,
          request, response, located, deliveries, workers, probe>>

\* ------------------------------------------------------------------------
\* Settings collaborator and the gateway secret
\* ------------------------------------------------------------------------

Organizers == {"o1", "o2"}

\* Organizer.objects.all(), in the order of iteration.
OrganizerOrder == <<"o1", "o2">>

Unset == "<unset>"

SettingKeys == {"payment_eupago_webhook_secret", "eupago_webhook_secret",
                "webhook_secret", "payment_webhook_secret",
                "payment_eupago_debug_mode", "eupago_debug_mode"}

\* organizer.settings.get(key, default)
SettingsGet(o, key, default) ==
    IF settings[o][key] = Unset THEN default ELSE settings[o][key]

PrefixedKey(name) ==
    IF name = "webhook_secret" THEN "payment_eupago_webhook_secret"
    ELSE "payment_eupago_debug_mode"

PlainKey(name) ==
    IF name = "webhook_secret" THEN "eupago_webhook_secret"
    ELSE "eupago_debug_mode"

\* EuPagoBaseProvider.get_setting: the eupago_ key is read only when the
\* payment_eupago_ key is unset (None), not when it is empty.
get_setting(o, name, default) ==
    LET value == SettingsGet(o, PrefixedKey(name), Unset)
    IN  IF value = Unset THEN SettingsGet(o, PlainKey(name), default) ELSE value

\* A provider whose debug mode could not be switched on.
debug_off(o) == FALSE

\* EuPagoBaseProvider.debug_mode
debug_mode(o) == get_setting(o, "debug_mode", "false") \in {"true", "1", "yes", "on"}

\* First value of a sequence of settings keys that is non-empty for organizer o.
RECURSIVE FirstKey(_, _, _)
FirstKey(o, keys, i) ==
    IF i > Len(keys) THEN ""
    ELSE IF SettingsGet(o, keys[i], "") # "" THEN SettingsGet(o, keys[i], "")
    ELSE FirstKey(o, keys, i + 1)

\* First organizer, in iteration order, that has one of the keys set.
RECURSIVE FirstOrganizerSecret(_, _)
FirstOrganizerSecret(keys, i) ==
    IF i > Len(OrganizerOrder) THEN ""
    ELSE IF FirstKey(OrganizerOrder[i], keys, 1) # "" THEN FirstKey(OrganizerOrder[i], keys, 1)
    ELSE FirstOrganizerSecret(keys, i + 1)

\* Environment variable, then the local secret file.
EnvOrFile == IF environ # "" THEN environ ELSE secret_file

\* _handle_webhook_v2: the secret handed to the decryptor.
WebhookSecretV2 ==
    LET s == FirstOrganizerSecret(<<"payment_eupago_webhook_secret", "eupago_webhook_secret">>, 1)
    IN  IF s # "" THEN s ELSE EnvOrFile

\* _decrypt_webhook_data: the secret it resolves itself when handed none.
WebhookSecretDecrypt(webhook_secret) ==
    IF webhook_secret # "" THEN webhook_secret
    ELSE LET s == FirstOrganizerSecret(<<"payment_eupago_webhook_secret", "eupago_webhook_secret",
                                         "webhook_secret", "payment_webhook_secret">>, 1)
         IN  IF s # "" THEN s ELSE EnvOrFile

\* ------------------------------------------------------------------------
\* Signature Verifier
\* ------------------------------------------------------------------------

\* No X-Signature header.
NoSignature == [enc |-> "absent", key |-> "", msg |-> "", bits |-> "exact"]

\* hmac.new(key, msg, hashlib.sha256).digest()
HmacSha256(key, msg) == [key |-> key, msg |-> msg, altered |-> FALSE]

\* A decoder that would lose the altered bits of the digest.
LossyDecode(signature) ==
    [ok |-> signature.bits # "broken",
     bytes |-> [key |-> signature.key, msg |-> signature.msg, altered |-> signature.enc # "b64"]]

\* base64.b64decode(signature).  The header is the text of a digest in an
\* encoding; bits tells how the text differs from the canonical one: "exact",
\* "slack" (only the two unused bits of the last character before the padding
\* differ, which the decoder drops), "digest" (a bit of the digest differs) or
\* "broken" (the padding is wrong and the decoder raises).  The 64 characters
\* of a hexadecimal digest decode to 48 other bytes.
B64Decode(signature) ==
    [ok |-> signature.bits # "broken",
     bytes |-> [key |-> signature.key, msg |-> signature.msg,
                altered |-> signature.enc # "b64" \/ signature.bits = "digest"]]

\* A verifier that would accept nothing, with or without a secret.
RejectAll(o, payload, signature) == FALSE

\* EuPagoBaseProvider._validate_webhook_signature.  payload names the string
\* handed in and says whether it is a JSON object with a string field data.
_validate_webhook_signature(o, payload, signature) ==
    LET webhook_secret == get_setting(o, "webhook_secret", Unset)
        secret == IF webhook_secret = Unset THEN "" ELSE webhook_secret
        msg == IF payload.hasData THEN payload.dataName ELSE payload.name
        expected_bin == HmacSha256(secret, msg)
        received_bin == B64Decode(signature)
    IN  IF secret = "" THEN TRUE
        ELSE IF signature.enc = "absent" THEN FALSE
        ELSE received_bin.ok /\ received_bin.bytes = expected_bin

\* ------------------------------------------------------------------------
\* Payload Decryptor
\* ------------------------------------------------------------------------

\* hashlib.sha256(secret).digest() / secret padded or cut to 32 bytes / IV as key
KeyFromHash(secret) == <<"sha256", secret>>
KeyDirect(secret) == <<"direct", secret>>
KeyFromIV(iv) == <<"iv", iv>>

\* base64.b64decode(iv) gives the 16 bytes AES.new needs.
ValidIV(iv) == iv \in {"iv1", "iv2"}

\* AES-256-CBC decryption followed by the unpadding fallbacks: the plaintext
\* under the key and IV the ciphertext was made with, and otherwise the bytes
\* the ciphertext happens to decrypt to (c.junk).
AESDecrypt(c, key, iv) ==
    IF c.key = key /\ c.iv = iv THEN c.pt ELSE [kind |-> c.junk]

\* decrypted.decode('utf-8') succeeds
DecodesUtf8(pt) == pt.kind # "nonutf8"

\* strip().startswith('{') and strip().endswith('}')
LooksLikeJson(pt) == pt.kind \in {"object", "braces"}

\* json.loads succeeds
ParsesAsJson(pt) == pt.kind \in {"object", "scalar"}

NoPlain == [kind |-> "none"]

\* _decrypt_webhook_data: the decrypted string, or NoPlain for None.
_decrypt_webhook_data(c, iv, webhook_secret) ==
    IF iv = "" THEN NoPlain
    ELSE LET secret == WebhookSecretDecrypt(webhook_secret)
             d1 == AESDecrypt(c, KeyFromHash(secret), iv)
             d2 == AESDecrypt(c, KeyDirect(secret), iv)
             d3 == AESDecrypt(c, KeyFromIV(iv), iv)
         IN  IF secret = "" THEN NoPlain
             ELSE IF ~ValidIV(iv) \/ ~c.wellFormed THEN NoPlain
             ELSE IF DecodesUtf8(d1) THEN d1
             ELSE IF DecodesUtf8(d2) /\ LooksLikeJson(d2) THEN d2
             ELSE IF DecodesUtf8(d3) /\ LooksLikeJson(d3) THEN d3
             ELSE NoPlain

\* ------------------------------------------------------------------------
\* Payment Locator
\* ------------------------------------------------------------------------

\* order_by('-created')[:50]
ScanLimit == 50

\* Position of the first '-P-' in an identifier, 0 if there is none.
SepAt(s) ==
    IF \E i \in 1..Len(s) : s[i] = "-P-"
    THEN CHOOSE i \in 1..Len(s) : s[i] = "-P-" /\ \A j \in 1..(i - 1) : s[j] # "-P-"
    ELSE 0

\* A filter that would match on the order code alone.
ByOrderCode(order_code, local_id) ==
    LET hits == {p \in Payments : EuPagoFamily(p) /\ PaymentRow[p].code = order_code}
    IN  IF hits = {} THEN NoPayment
        ELSE CHOOSE p \in hits : \A q \in hits : PaymentRow[p].created <= PaymentRow[q].created

\* filter(order__code=..., local_id=..., provider__startswith='eupago').first()
ByOrderAndLocalId(order_code, local_id) ==
    LET hits == {p \in Payments : /\ EuPagoFamily(p)
                                  /\ PaymentRow[p].code = order_code
                                  /\ PaymentRow[p].local_id = local_id}
    IN  IF hits = {} THEN NoPayment
        ELSE CHOOSE p \in hits : \A q \in hits : PaymentRow[p].created <= PaymentRow[q].created

\* filter(provider__startswith='eupago').order_by('-created')[:50]
Candidates ==
    {p \in Payments :
        /\ EuPagoFamily(p)
        /\ PaymentRow[p].newer
             + Cardinality({q \in Payments : EuPagoFamily(q)
                              /\ PaymentRow[q].created > PaymentRow[p].created}) < ScanLimit}

\* A scan that would read the newest candidate only.
ScanNewest(rows, needle) ==
    LET hits == {p \in Candidates : /\ Occurs(needle, rows[p].info)
                                    /\ \A q \in Candidates : PaymentRow[p].created >= PaymentRow[q].created}
    IN  IF hits = {} THEN NoPayment ELSE CHOOSE p \in hits : TRUE

\* A scan that would read the candidates oldest first.
ScanOldest(rows, needle) ==
    LET hits == {p \in Candidates : Occurs(needle, rows[p].info)}
    IN  IF hits = {} THEN NoPayment
        ELSE CHOOSE p \in hits : \A q \in hits : PaymentRow[p].created <= PaymentRow[q].created

\* The newest candidate whose info contains the needle.
ScanInfo(rows, needle) ==
    LET hits == {p \in Candidates : Occurs(needle, rows[p].info)}
    IN  IF hits = {} THEN NoPayment
        ELSE CHOOSE p \in hits : \A q \in hits : PaymentRow[p].created >= PaymentRow[q].created

\* _find_payment_by_identifiers
_find_payment_by_identifiers(rows, identifier, reference) ==
    LET i == SepAt(identifier)
        parsed == IF identifier # EmptyStr /\ i > 0
                  THEN ByOrderAndLocalId(SubSeq(identifier, 1, i - 1),
                                         SubSeq(identifier, i + 1, Len(identifier)))
                  ELSE NoPayment
        byIdent == IF identifier = EmptyStr THEN NoPayment
                   ELSE IF parsed # NoPayment THEN parsed
                   ELSE ScanInfo(rows, identifier)
    IN  IF byIdent # NoPayment THEN byIdent
        ELSE IF reference # EmptyStr THEN ScanInfo(rows, reference)
        ELSE NoPayment

\* ------------------------------------------------------------------------
\* Host API: OrderPayment.save / confirm / fail
\* ------------------------------------------------------------------------

\* What a handler leaves behind: the rows, the call counters and whether it raised.
Effect(rows, cc, fc, raised) == [db |-> rows, cc |-> cc, fc |-> fc, raised |-> raised]

\* payment.save(update_fields=['info'])
SaveInfo(rows, p, info) == [rows EXCEPT ![p].info = info]

\* payment.save(update_fields=['state', 'info'])
SaveStateInfo(rows, p, state, info) == [rows EXCEPT ![p] = [state |-> state, info |-> info]]

\* payment.confirm(): the row becomes Confirmed and carries the object's info.
HostConfirm(rows, p, info) == SaveStateInfo(rows, p, PAYMENT_STATE_CONFIRMED, info)

\* payment.fail(info=data): the row becomes Failed and carries data as its info.
HostFail(rows, p, data) == SaveStateInfo(rows, p, PAYMENT_STATE_FAILED, data)

Bump(calls, p) == [calls EXCEPT ![p] = @ + 1]

\* ------------------------------------------------------------------------
\* Reconciliation Engine
\* ------------------------------------------------------------------------

\* A guard that would also skip a payment still awaiting its notification.
AlreadySettled(state) ==
    state \in {PAYMENT_STATE_CONFIRMED, PAYMENT_STATE_REFUNDED, PAYMENT_STATE_PENDING}

\* A handler without the early return.
NeverConfirmed(state) == FALSE

\* The early return of _handle_payment_completed.
AlreadyConfirmed(state) == state \in {PAYMENT_STATE_CONFIRMED, PAYMENT_STATE_REFUNDED}

\* {**existing_info, **data, 'webhook_confirmed_at': now}
MergedInfo(info, data) ==
    Merge(Merge(info, data), [k \in {"webhook_confirmed_at"} |-> NowStamp])

\* _handle_payment_completed: every exception is logged and swallowed.
_handle_payment_completed(rows, cc, fc, p, data, fault) ==
    IF AlreadyConfirmed(rows[p].state) THEN Effect(rows, cc, fc, FALSE)
    ELSE IF fault = "save" THEN Effect(rows, cc, fc, FALSE)
    ELSE LET saved == SaveInfo(rows, p, MergedInfo(rows[p].info, data))
         IN  IF fault = "transition" THEN Effect(saved, Bump(cc, p), fc, FALSE)
             ELSE Effect(HostConfirm(saved, p, saved[p].info), Bump(cc, p), fc, FALSE)

\* _handle_payment_failed
_handle_payment_failed(rows, cc, fc, p, data, fault) ==
    IF rows[p].state = PAYMENT_STATE_FAILED THEN Effect(rows, cc, fc, FALSE)
    ELSE IF fault = "transition" THEN Effect(rows, cc, Bump(fc, p), TRUE)
    ELSE Effect(HostFail(rows, p, data), cc, Bump(fc, p), FALSE)

\* _handle_payment_cancelled
_handle_payment_cancelled(rows, cc, fc, p, data, fault) ==
    IF rows[p].state = PAYMENT_STATE_CANCELED THEN Effect(rows, cc, fc, FALSE)
    ELSE IF fault = "save" THEN Effect(rows, cc, fc, TRUE)
    ELSE Effect(SaveStateInfo(rows, p, PAYMENT_STATE_CANCELED, data), cc, fc, FALSE)

\* A handler that would treat an expiry as a failure.
ExpireAsFailed(rows, cc, fc, p, data, fault) ==
    Effect(HostFail(rows, p, data), cc, Bump(fc, p), FALSE)

\* _handle_payment_expired
_handle_payment_expired(rows, cc, fc, p, data, fault) ==
    IF rows[p].state = PAYMENT_STATE_CANCELED THEN Effect(rows, cc, fc, FALSE)
    ELSE IF fault = "save" THEN Effect(rows, cc, fc, TRUE)
    ELSE Effect(SaveStateInfo(rows, p, PAYMENT_STATE_CANCELED, data), cc, fc, FALSE)

\* An else branch that would raise on a status it does not know.
RejectUnknownStatus(rows, cc, fc, p, data, fault) == Effect(rows, cc, fc, TRUE)

\* An else branch that would also move a Created payment to Pending.
AdvanceCreated(rows, cc, fc, p, data, fault) ==
    Effect(SaveStateInfo(rows, p,
                         IF rows[p].state = PAYMENT_STATE_CREATED THEN PAYMENT_STATE_PENDING ELSE rows[p].state,
                         data), cc, fc, FALSE)

\* The else branch of the status dispatch: only the info is replaced.
UpdateInfoOnly(rows, cc, fc, p, data, fault) ==
    IF fault = "save" THEN Effect(rows, cc, fc, TRUE)
    ELSE Effect(SaveInfo(rows, p, data), cc, fc, FALSE)

\* The branch the status dispatch of _handle_webhook_v2 takes.
StatusBranch(status) ==
    IF status \in {<<"paid">>, <<"success">>} THEN "completed"
    ELSE IF status \in {<<"error">>, <<"failed">>, <<"failure">>} THEN "failed"
    ELSE IF status \in {<<"cancel">>, <<"cancelled">>} THEN "cancelled"
    ELSE IF status = <<"expired">> THEN "expired"
    ELSE "other"

\* transaction_data.get('status', '').lower()
StatusOf(transaction_data) == Lower(Get(transaction_data, "status"))

\* The branch process_webhook_payment_update takes for a status.
WebhookUpdateBranch(status) ==
    IF status \in {<<"Success">>, <<"Sucesso">>, <<"completed">>, <<"paid">>} THEN "completed"
    ELSE IF status \in {<<"Failed">>, <<"Falhado">>, <<"failed">>, <<"error">>} THEN "failed"
    ELSE IF status \in {<<"Pending">>, <<"Pendente">>, <<"pending">>, <<"processing">>} THEN "pending"
    ELSE IF status \in {<<"Canceled">>, <<"Cancelado">>, <<"canceled">>, <<"cancelled">>} THEN "cancelled"
    ELSE "other"

\* The branch _update_payment_from_status_response takes for a status.
StatusResponseBranch(status) ==
    IF status \in {<<"Success">>, <<"Sucesso">>, <<"completed">>, <<"paid">>} THEN "completed"
    ELSE IF status \in {<<"Failed">>, <<"Falhado">>, <<"failed">>, <<"error">>} THEN "failed"
    ELSE IF status \in {<<"Expired">>, <<"Expirado">>, <<"expired">>, <<"timeout">>} THEN "expired"
    ELSE "other"

\* The body of the `with transaction.atomic()` block of _handle_webhook_v2.
ProcessV2(rows, cc, fc, p, transaction_data, fault) ==
    LET branch == StatusBranch(StatusOf(transaction_data))
    IN  CASE branch = "completed" -> _handle_payment_completed(rows, cc, fc, p, transaction_data, fault)
          [] branch = "failed" -> _handle_payment_failed(rows, cc, fc, p, transaction_data, fault)
          [] branch = "cancelled" -> _handle_payment_cancelled(rows, cc, fc, p, transaction_data, fault)
          [] branch = "expired" -> _handle_payment_expired(rows, cc, fc, p, transaction_data, fault)
          [] OTHER -> UpdateInfoOnly(rows, cc, fc, p, transaction_data, fault)

\* ------------------------------------------------------------------------
\* Webhook Dispatcher
\* ------------------------------------------------------------------------

\* What one request leaves behind.
Result(rows, cc, fc, status, body, loc) ==
    [db |-> rows, cc |-> cc, fc |-> fc, response |-> [status |-> status, body |-> body], located |-> loc]

HasNested(transaction_data) == "transaction" \in TopKeys(transaction_data)

\* identifier / reference extraction of _handle_webhook_v2
IdentifierV2(transaction_data) ==
    IF HasNested(transaction_data)
    THEN OrElse(Get(transaction_data, "transaction.identifier"),
                Get(transaction_data, "transaction.identificador"))
    ELSE OrElse(Get(transaction_data, "identifier"), Get(transaction_data, "identificador"))

ReferenceV2(transaction_data) ==
    IF HasNested(transaction_data)
    THEN OrElse(Get(transaction_data, "transaction.reference"),
                Get(transaction_data, "transaction.referencia"))
    ELSE OrElse(Get(transaction_data, "reference"), Get(transaction_data, "referencia"))

\* A dispatcher that would acknowledge a notification it could not decrypt.
DecryptionAcknowledged(rows, cc, fc, body) == Result(rows, cc, fc, 200, body, NoPayment)

\* The two HttpResponse(..., status=400) of the encrypted branch.
DecryptionFailed(rows, cc, fc, body) == Result(rows, cc, fc, 400, body, NoPayment)

\* An entry point that would let the exception escape to the host: no response.
ExceptionEscapes(rows, cc, fc) == Result(rows, cc, fc, 0, "exception", NoPayment)

\* The `except Exception` of webhook: HttpResponse('Internal error', status=500)
InternalError(rows, cc, fc) == Result(rows, cc, fc, 500, "Internal error", NoPayment)

\* A dispatcher that would answer a lookup miss with 404.
PaymentUnknown(rows, cc, fc) == Result(rows, cc, fc, 404, "Payment not found", NoPayment)

\* HttpResponse('Payment not found', status=200)
PaymentNotFound(rows, cc, fc) == Result(rows, cc, fc, 200, "Payment not found", NoPayment)

\* _handle_webhook_v2 from the payment lookup on.
LocateVerifyProcess(rows, cc, fc, req, transaction_data, payload) ==
    LET identifier == IdentifierV2(transaction_data)
        reference == ReferenceV2(transaction_data)
        payment == _find_payment_by_identifiers(rows, identifier, reference)
        organizer == PaymentRow[payment].organizer
        is_valid == _validate_webhook_signature(organizer, payload, req.signature)
        done == ProcessV2(rows, cc, fc, payment, transaction_data, req.fault)
    IN  IF identifier = EmptyStr /\ reference = EmptyStr
        THEN Result(rows, cc, fc, 400, "Missing identifier and reference", NoPayment)
        ELSE IF payment = NoPayment
        THEN PaymentNotFound(rows, cc, fc)
        ELSE IF req.signature.enc # "absent" /\ ~is_valid /\ ~debug_mode(organizer)
        THEN Result(rows, cc, fc, 400, "Invalid signature", payment)
        ELSE IF done.raised
        THEN Result(rows, done.cc, done.fc, 500, "Processing error", payment)
        ELSE Result(done.db, done.cc, done.fc, 200, "OK", payment)

\* _handle_webhook_v2
RECURSIVE _handle_webhook_v2(_, _, _, _, _, _)
_handle_webhook_v2(rows, cc, fc, req, event_data, event_body) ==
    IF event_data.encrypted
    THEN LET decrypted_data == _decrypt_webhook_data(event_data.data, req.iv, WebhookSecretV2)
         IN  IF decrypted_data.kind \in {"none", "empty"}
             THEN DecryptionFailed(rows, cc, fc, "Decryption failed")
             ELSE IF ~ParsesAsJson(decrypted_data)
             THEN DecryptionFailed(rows, cc, fc, "Invalid decrypted JSON")
             ELSE IF decrypted_data.kind = "scalar"
             THEN InternalError(rows, cc, fc)
             ELSE _handle_webhook_v2(rows, cc, fc, req, decrypted_data.obj, "plain")
    ELSE IF event_data.wrap = "strings"
    THEN InternalError(rows, cc, fc)
    ELSE IF event_data.wrap = "empty" \/ DOMAIN event_data.tx = {}
    THEN Result(rows, cc, fc, 400, "Missing transaction data", NoPayment)
    ELSE LocateVerifyProcess(rows, cc, fc, req, event_data.tx,
                             [name |-> event_body, hasData |-> FALSE, dataName |-> "data"])

\* A check of the v1 parameters that would not ask for valor.
two_required_params == {"referencia", "identificador"}

\* required_params of _handle_webhook_v1
required_params == {"referencia", "identificador", "valor"}

\* _handle_webhook_v1
_handle_webhook_v1(rows, cc, fc, req) ==
    LET params == IF DOMAIN req.query = {} /\ req.method = "POST" THEN req.form ELSE req.query
        identifier == Get(params, "identificador")
        reference == Get(params, "referencia")
        payment == _find_payment_by_identifiers(rows, identifier, reference)
        done == _handle_payment_completed(rows, cc, fc, payment, params, req.fault)
    IN  IF ~(required_params \subseteq DOMAIN params)
        THEN Result(rows, cc, fc, 400, "Missing parameters", NoPayment)
        ELSE IF payment = NoPayment
        THEN PaymentNotFound(rows, cc, fc)
        ELSE Result(done.db, done.cc, done.fc, 200, "OK", payment)

\* The format detection of webhook.  bodyKind tells what the body is: "json"
\* (the text of a JSON object), "jsonarray" (JSON text that does not start
\* with a brace: an array or a scalar), "badutf8" (bytes that are not UTF-8)
\* or "form" (anything else).
DetectFormat(req) ==
    IF req.method = "GET" THEN "v1"
    ELSE IF req.bodyKind = "badutf8" THEN "undecodable"
    ELSE IF req.bodyKind = "json" THEN "v2"
    ELSE "v1"

\* webhook
webhook(rows, cc, fc, req) ==
    CASE DetectFormat(req) = "v1" -> _handle_webhook_v1(rows, cc, fc, req)
      [] DetectFormat(req) = "v2" -> _handle_webhook_v2(rows, cc, fc, req, req.body, "body")
      [] OTHER -> Result(rows, cc, fc, 400, "Invalid body encoding", NoPayment)

\* ------------------------------------------------------------------------
\* Inbound requests
\* ------------------------------------------------------------------------

NoCipher == [key |-> <<"", "">>, iv |-> "", pt |-> NoPlain, junk |-> "nonutf8", wellFormed |-> FALSE]

\* A JSON body that is (or wraps, under 'transactions') one transaction object;
\* wrap tells how: "none" (the body is the object), "list" (a list holding it),
\* "empty" (an empty list) or "strings" (a list of strings, not of objects).
PlainBody(wrap, tx) == [encrypted |-> FALSE, data |-> NoCipher, wrap |-> wrap, tx |-> tx]

\* A JSON body {"data": "<base64 ciphertext>"}.
EncryptedBody(c) == [encrypted |-> TRUE, data |-> c, wrap |-> "none", tx |-> EmptyDict]

\* The AES-256-CBC encryption of a plaintext; junk is what its bytes decode to
\* under any other key or IV.
Encrypt(key, iv, pt, junk) == [key |-> key, iv |-> iv, pt |-> pt, junk |-> junk, wellFormed |-> TRUE]

ObjectPlain(body) == [kind |-> "object", obj |-> body]

\* base64 of HMAC-SHA256(key, msg) / its hexadecimal digest
SignB64(key, msg) == [enc |-> "b64", key |-> key, msg |-> msg, bits |-> "exact"]
SignHex(key, msg) == [enc |-> "hex", key |-> key, msg |-> msg, bits |-> "exact"]

Faults == {"none", "save", "transition"}

Req(method, query, form, bodyKind, body, signature, iv, fault) ==
    [method |-> method, query |-> query, form |-> form, bodyKind |-> bodyKind, body |-> body,
     signature |-> signature, iv |-> iv, fault |-> fault]

NoBody == PlainBody("none", EmptyDict)

NoRequest == Req("none", EmptyDict, EmptyDict, "form", NoBody, NoSignature, "", "none")

Reference1 == <<"217404">>
UnknownIdentifier == <<"ZZZ9", "-P-", "7">>
UnknownReference == <<"999999">>
Valor == <<"10.00">>

V1Params(identifier, reference) ==
    [k \in {"referencia", "identificador", "valor"} |->
        IF k = "valor" THEN Valor ELSE IF k = "referencia" THEN reference ELSE identifier]

GetRequests ==
    {Req("GET", V1Params(IdentifierOf("p1"), Reference1), EmptyDict, "form", NoBody, NoSignature, "", f) :
        f \in Faults}
    \cup {Req("GET", q, EmptyDict, "form", NoBody, NoSignature, "", "none") :
            q \in {V1Params(IdentifierOf("p2"), UnknownReference),
                   V1Params(UnknownIdentifier, UnknownReference),
                   V1Params(UnknownIdentifier, Reference1),
                   [k \in {"referencia", "identificador"} |-> Reference1],
                   EmptyDict}}
    \cup {Req("GET", V1Params(IdentifierOf("p1"), Reference1), EmptyDict, "form", NoBody,
              SignB64("s1", "other"), "", "none")}

Statuses == {<<"Paid">>, <<"Failed">>, <<"Cancelled">>, <<"Expired">>, <<"Pending">>, <<"Bogus">>}

Flat(identifier, status) ==
    [k \in {"identifier", "status"} |-> IF k = "status" THEN status ELSE identifier]

NestedTx(identifier, status) ==
    [k \in {"transaction.identifier", "transaction.status"} |->
        IF k = "transaction.status" THEN status ELSE identifier]

RefOnly(reference, status) ==
    [k \in {"reference", "status"} |-> IF k = "status" THEN status ELSE reference]

\* A POST with a JSON body.
JsonPost(body, signature, iv, fault) ==
    Req("POST", EmptyDict, EmptyDict, "json", body, signature, iv, fault)

\* The plaintext of the encrypted notifications: a paid transaction of p1.
PaidPlain == ObjectPlain(PlainBody("none", Flat(IdentifierOf("p1"), <<"Paid">>)))

\* A plaintext that is again an envelope {"data": ...}, made with the given IV.
EnvelopePlain(iv) == ObjectPlain(EncryptedBody(Encrypt(KeyFromHash("s1"), iv, PaidPlain, "nonutf8")))

PlainPosts ==
    {JsonPost(PlainBody("none", Flat(IdentifierOf("p1"), st)), sig, "", "none") :
        st \in Statuses, sig \in {NoSignature, SignB64("s1", "body")}}
    \cup {JsonPost(PlainBody("none", Flat(IdentifierOf("p1"), <<"Paid">>)), sig, "", "none") :
            sig \in {SignB64("s1", "other"), SignB64("s2", "body"), SignHex("s1", "body")}}
    \cup {JsonPost(PlainBody("none", NestedTx(IdentifierOf("p1"), <<"Paid">>)), sig, "", "none") :
            sig \in {NoSignature, SignB64("s1", "body")}}
    \cup {JsonPost(PlainBody("none", Flat(IdentifierOf("p2"), <<"Paid">>)), sig, "", "none") :
            sig \in {NoSignature, SignB64("s2", "body")}}
    \cup {JsonPost(PlainBody("none", tx), sig, "", "none") :
            tx \in {Flat(UnknownIdentifier, <<"Paid">>), [k \in {"status"} |-> <<"Paid">>]},
            sig \in {NoSignature, SignB64("s1", "other")}}
    \cup {JsonPost(PlainBody("none", tx), NoSignature, "", "none") :
            tx \in {Flat(IdentifierOf("p2"), <<"Cancelled">>), RefOnly(Reference1, <<"Paid">>)}}
    \cup {JsonPost(PlainBody(w, Flat(IdentifierOf("p1"), <<"Paid">>)), NoSignature, "", "none") :
            w \in {"list", "empty"}}
    \cup {JsonPost(NoBody, NoSignature, "", "none"),
          JsonPost(PlainBody("strings", EmptyDict), NoSignature, "", "none")}

\* Notifications during which a host call raises.
FaultyPosts ==
    {JsonPost(PlainBody("none", Flat(IdentifierOf("p1"), st)), NoSignature, "", f) :
        st \in {<<"Paid">>, <<"Failed">>, <<"Cancelled">>, <<"Bogus">>}, f \in {"save", "transition"}}

EncryptedPosts ==
    {JsonPost(EncryptedBody(Encrypt(KeyFromHash("s1"), "iv1", PaidPlain, "nonutf8")), NoSignature, iv, "none") :
        iv \in {"iv1", "iv2", "", "short"}}
    \cup {JsonPost(EncryptedBody(Encrypt(KeyFromHash("s1"), "iv1", PaidPlain, "nonutf8")), sig, "iv1", "none") :
            sig \in {SignB64("s1", "data"), SignB64("s1", "plain"), SignB64("s1", "other")}}
    \cup {JsonPost(EncryptedBody(Encrypt(KeyDirect("s1"), "iv1", PaidPlain, "nonutf8")), NoSignature, "iv1", "none"),
          JsonPost(EncryptedBody(Encrypt(KeyFromHash("s1"), "iv1", PaidPlain, "text")), NoSignature, "iv2", "none"),
          JsonPost(EncryptedBody(Encrypt(KeyFromHash("s9"), "iv1", PaidPlain, "nonutf8")), NoSignature, "iv1", "none"),
          JsonPost(EncryptedBody([Encrypt(KeyFromHash("s1"), "iv1", PaidPlain, "nonutf8")
                                    EXCEPT !.wellFormed = FALSE]), NoSignature, "iv1", "none")}
    \cup {JsonPost(EncryptedBody(Encrypt(KeyFromHash("s1"), "iv1", [kind |-> k], "nonutf8")), NoSignature, "iv1", "none") :
            k \in {"text", "braces", "empty", "scalar"}}
    \cup {JsonPost(EncryptedBody(Encrypt(KeyFromHash("s1"), "iv1", EnvelopePlain(iv), "nonutf8")), NoSignature, "iv1", "none") :
            iv \in {"iv1", "iv2"}}

OtherPosts ==
    {Req("POST", EmptyDict, EmptyDict, "badutf8", NoBody, NoSignature, "", "none"),
     Req("POST", EmptyDict, V1Params(IdentifierOf("p1"), Reference1), "form", NoBody, NoSignature, "", "none")}

PostRequests == PlainPosts \cup FaultyPosts \cup EncryptedPosts \cup OtherPosts

\* ------------------------------------------------------------------------
\* Concurrent deliveries: one request-handling thread per worker
\* ------------------------------------------------------------------------

Workers == {"w1", "w2"}

\* A worker between requests.  payment is the OrderPayment object the locator
\* loaded (state and info are its fields, not the row's); atomic tells whether
\* the handler runs inside transaction.atomic(); wrote whether it holds an
\* uncommitted write of the row.
Idle == [pc |-> "idle", payment |-> NoPayment, state |-> "", info |-> EmptyDict,
         data |-> EmptyDict, atomic |-> FALSE, wrote |-> FALSE]

\* Completed notifications of p1, over both protocols.
ConcRequests ==
    {Req("GET", V1Params(IdentifierOf("p1"), Reference1), EmptyDict, "form", NoBody, NoSignature, "", "none"),
     JsonPost(PlainBody("none", Flat(IdentifierOf("p1"), <<"Paid">>)), NoSignature, "", "none"),
     JsonPost(PlainBody("none", Flat(IdentifierOf("p1"), <<"Success">>)), NoSignature, "", "none")}

\* ------------------------------------------------------------------------
\* Initial states
\* ------------------------------------------------------------------------

NoSettings == [k \in SettingKeys |-> Unset]

\* The deployments the model starts from: settings per organizer, the
\* environment variable and the secret file.
Deployments ==
    {[settings |-> [o \in Organizers |->
                      IF o = "o1" THEN [NoSettings EXCEPT !["payment_eupago_webhook_secret"] = "s1"]
                      ELSE [NoSettings EXCEPT !["eupago_webhook_secret"] = "s2"]],
      environ |-> "", secret_file |-> ""],
     [settings |-> [o \in Organizers |->
                      IF o = "o1" THEN [NoSettings EXCEPT !["payment_eupago_webhook_secret"] = "s1",
                                                          !["payment_eupago_debug_mode"] = "true"]
                      ELSE [NoSettings EXCEPT !["eupago_webhook_secret"] = "s2"]],
      environ |-> "", secret_file |-> ""],
     [settings |-> [o \in Organizers |-> NoSettings], environ |-> "s1", secret_file |-> ""],
     [settings |-> [o \in Organizers |-> NoSettings], environ |-> "", secret_file |-> ""]}

\* The info the checkout flow stored from the gateway's creation response.
InitialInfo(p) ==
    CASE p = "p1" -> [k \in {"reference", "method"} |-> IF k = "reference" THEN Reference1 ELSE <<"mbway">>]
      [] p = "p2" -> [k \in {"referencia"} |-> <<"555001">>]
      [] p = "p4" -> [k \in {"reference"} |-> <<"777001">>]
      [] OTHER -> EmptyDict

InitialStates(p) ==
    CASE p = "p1" -> {PAYMENT_STATE_PENDING}
      [] p = "p2" -> {PAYMENT_STATE_CREATED, PAYMENT_STATE_PENDING, PAYMENT_STATE_REFUNDED}
      [] OTHER -> {PAYMENT_STATE_PENDING}

NoResponse == [status |-> 0, body |-> ""]

NoProbe == [fn |-> "none"]

Init ==
    /\ \E st \in [Payments -> {PAYMENT_STATE_CREATED, PAYMENT_STATE_PENDING, PAYMENT_STATE_REFUNDED}] :
          /\ \A p \in Payments : st[p] \in InitialStates(p)
          /\ db = [p \in Payments |-> [state |-> st[p], info |-> InitialInfo(p)]]
    /\ \E d \in Deployments :
          /\ settings = d.settings
          /\ environ = d.environ
          /\ secret_file = d.secret_file
    /\ confirmCalls = [p \in Payments |-> 0]
    /\ failCalls = [p \in Payments |-> 0]
    /\ request = NoRequest
    /\ response = NoResponse
    /\ located = NoPayment
    /\ deliveries = 0
    /\ workers = [w \in Workers |-> Idle]
    /\ probe = NoProbe

\* ------------------------------------------------------------------------
\* Actions
\* ------------------------------------------------------------------------

\* One inbound request, handled from start to end.
HandleRequest(req) ==
    /\ LET r == webhook(db, confirmCalls, failCalls, req)
       IN  /\ db' = r.db
           /\ confirmCalls' = r.cc
           /\ failCalls' = r.fc
           /\ response' = r.response
           /\ located' = r.located
    /\ request' = req
    /\ deliveries' = deliveries + 1
    /\ UNCHANGED <<settings, environ, secret_file, workers>>

Handle(req) == HandleRequest(req) /\ UNCHANGED probe

Deliver(req) == deliveries < MaxDeliveries /\ Handle(req)

WebhookGET == \E req \in GetRequests : Deliver(req)

WebhookPOST == \E req \in PostRequests : Deliver(req)

Next == WebhookGET \/ WebhookPOST

Spec == Init /\ [][Next]_vars

\* ------------------------------------------------------------------------
\* A series of notifications for one payment, the host never failing
\* ------------------------------------------------------------------------

\* The outcomes the handlers apply themselves (Failed goes through the host's fail()).
SeriesStatuses == Statuses \ {<<"Failed">>}

SeriesRequests ==
    {JsonPost(PlainBody("none", Flat(IdentifierOf("p1"), st)), NoSignature, "", "none") : st \in SeriesStatuses}
    \cup {Req("GET", V1Params(IdentifierOf("p1"), Reference1), EmptyDict, "form", NoBody, NoSignature, "", "none")}

Notify == \E req \in SeriesRequests : deliveries < MaxSeries /\ Handle(req)

NextSeries == Notify

SpecSeries == Init /\ [][NextSeries]_vars

\* ------------------------------------------------------------------------
\* Concurrent deliveries, step by step
\* ------------------------------------------------------------------------

\* Another worker holds an uncommitted write of payment p (its row lock).
LockedByOther(w, p) ==
    \E v \in Workers \ {w} : workers[v].payment = p /\ workers[v].atomic /\ workers[v].wrote

\* The request is parsed and the payment object is loaded from the committed rows.
Receive(w, req) ==
    /\ deliveries < MaxDeliveries
    /\ workers[w].pc = "idle"
    /\ LET isV2 == req.method = "POST" /\ req.bodyKind = "json"
           data == IF isV2 THEN req.body.tx ELSE req.query
           payment == IF isV2
                      THEN _find_payment_by_identifiers(db, IdentifierV2(data), ReferenceV2(data))
                      ELSE _find_payment_by_identifiers(db, Get(data, "identificador"), Get(data, "referencia"))
       IN  /\ payment # NoPayment
           /\ workers' = [workers EXCEPT ![w] =
                            [pc |-> "check", payment |-> payment, state |-> db[payment].state,
                             info |-> db[payment].info, data |-> data, atomic |-> isV2, wrote |-> FALSE]]
    /\ deliveries' = deliveries + 1
    /\ UNCHANGED <<probe, db, settings, environ, secret_file, confirmCalls, failCalls, request, response, located>>

\* _handle_payment_completed: the early return, decided on the loaded object.
CheckState(w) ==
    /\ workers[w].pc = "check"
    /\ workers' = [workers EXCEPT ![w].pc =
                     IF AlreadyConfirmed(workers[w].state) THEN "respond" ELSE "save"]
    /\ UNCHANGED <<probe, db, settings, environ, secret_file, confirmCalls, failCalls, request, response,
                   located, deliveries>>

\* payment.info = merged; payment.save(update_fields=['info'])
SaveMerged(w) ==
    /\ workers[w].pc = "save"
    /\ ~LockedByOther(w, workers[w].payment)
    /\ LET merged == MergedInfo(workers[w].info, workers[w].data)
       IN  /\ workers' = [workers EXCEPT ![w].pc = "confirm", ![w].info = merged, ![w].wrote = TRUE]
           /\ db' = IF workers[w].atomic THEN db ELSE SaveInfo(db, workers[w].payment, merged)
    /\ UNCHANGED <<probe, settings, environ, secret_file, confirmCalls, failCalls, request, response,
                   located, deliveries>>

\* payment.confirm()
Confirm(w) ==
    /\ workers[w].pc = "confirm"
    /\ ~LockedByOther(w, workers[w].payment)
    /\ confirmCalls' = Bump(confirmCalls, workers[w].payment)
    /\ workers' = [workers EXCEPT ![w].pc = "respond", ![w].state = PAYMENT_STATE_CONFIRMED]
    /\ db' = IF workers[w].atomic THEN db
             ELSE HostConfirm(db, workers[w].payment, workers[w].info)
    /\ UNCHANGED <<probe, settings, environ, secret_file, failCalls, request, response, located, deliveries>>

\* The atomic block commits (v2) and the response is sent.
Respond(w) ==
    /\ workers[w].pc = "respond"
    /\ db' = IF workers[w].atomic /\ workers[w].wrote
             THEN SaveStateInfo(db, workers[w].payment, workers[w].state, workers[w].info)
             ELSE db
    /\ response' = [status |-> 200, body |-> "OK"]
    /\ workers' = [workers EXCEPT ![w] = Idle]
    /\ UNCHANGED <<probe, settings, environ, secret_file, confirmCalls, failCalls, request, located, deliveries>>

NextConc ==
    \E w \in Workers :
        \/ \E req \in ConcRequests : Receive(w, req)
        \/ CheckState(w)
        \/ SaveMerged(w)
        \/ Confirm(w)
        \/ Respond(w)

SpecConc == Init /\ [][NextConc]_vars

\* ------------------------------------------------------------------------
\* Functions applied to given arguments
\* ------------------------------------------------------------------------

\* Request bodies handed to the verifier.  plainB is plainA with one byte
\* changed; envA is an envelope {"data": "<dataA>", ...}, envB is envA with one
\* byte changed outside the data string, envC is envA with one byte changed
\* inside it.
VerifyBodies == {"plainA", "plainB", "envA", "envB", "envC"}

VerifyPayload(b) ==
    [name |-> b,
     hasData |-> b \in {"envA", "envB", "envC"},
     dataName |-> CASE b \in {"envA", "envB"} -> "dataA"
                    [] b = "envC" -> "dataC"
                    [] OTHER -> ""]

SignatureBits == {"exact", "slack", "digest", "broken"}

VerifySignatures ==
    {[enc |-> "b64", key |-> k, msg |-> m, bits |-> x] :
        k \in {"s1", "s2"}, m \in VerifyBodies \cup {"dataA", "dataC"}, x \in SignatureBits}
    \cup {SignHex(k, m) : k \in {"s1", "s2"}, m \in {"plainA", "dataA"}}
    \cup {NoSignature}

\* provider._validate_webhook_signature(payload, signature)
Verify ==
    /\ probe = NoProbe
    /\ \E o \in Organizers, b \in VerifyBodies, sig \in VerifySignatures :
          probe' = [fn |-> "verify", organizer |-> o, body |-> b, signature |-> sig,
                    result |-> _validate_webhook_signature(o, VerifyPayload(b), sig)]
    /\ UNCHANGED <<db, settings, environ, secret_file, confirmCalls, failCalls,
                   request, response, located, deliveries, workers>>

\* Secrets, ciphertexts and IV headers handed to the decryptor.  A ciphertext
\* is the encryption of a notification of p1 under one of the two key
\* derivations; under another key or IV its bytes decode to junk, which may or
\* may not be valid UTF-8.
DecryptSecrets == {"s1", "s9"}

DecryptCiphers ==
    {Encrypt(key, iv, PaidPlain, junk) :
        key \in {KeyFromHash("s1"), KeyDirect("s1")}, iv \in {"iv1", "iv2"}, junk \in {"nonutf8", "text"}}

\* _decrypt_webhook_data(encrypted_data, iv, webhook_secret)
Decrypt ==
    /\ probe = NoProbe
    /\ \E c \in DecryptCiphers, iv \in {"iv1", "iv2", "short", ""}, secret \in DecryptSecrets :
          probe' = [fn |-> "decrypt", data |-> c, iv |-> iv, secret |-> secret,
                    result |-> _decrypt_webhook_data(c, iv, secret)]
    /\ UNCHANGED <<db, settings, environ, secret_file, confirmCalls, failCalls,
                   request, response, located, deliveries, workers>>

LocateIdentifiers ==
    {EmptyStr, UnknownIdentifier, Reference1} \cup {IdentifierOf(p) : p \in Payments}

LocateReferences == {EmptyStr, UnknownReference, Reference1, <<"555001">>, <<"777001">>}

\* _find_payment_by_identifiers(identifier, reference)
Locate ==
    /\ probe = NoProbe
    /\ \E identifier \in LocateIdentifiers, reference \in LocateReferences :
          probe' = [fn |-> "find", identifier |-> identifier, reference |-> reference,
                    result |-> _find_payment_by_identifiers(db, identifier, reference)]
    /\ UNCHANGED <<db, settings, environ, secret_file, confirmCalls, failCalls,
                   request, response, located, deliveries, workers>>

\* The status tokens of the gateway.
StatusTokens ==
    {"Success", "Sucesso", "paid", "completed", "Failed", "Falhado", "failed", "error",
     "Cancelled", "Cancelado", "canceled", "Expired", "Expirado", "timeout",
     "Paid", "Pending", "Bogus"}

\* The branch each of the three status mappers takes for a token.
MapStatus ==
    /\ probe = NoProbe
    /\ \E t \in StatusTokens :
          probe' = [fn |-> "status", token |-> t,
                    dispatcher |-> StatusBranch(Lower(<<t>>)),
                    webhook_update |-> WebhookUpdateBranch(<<t>>),
                    status_response |-> StatusResponseBranch(<<t>>)]
    /\ UNCHANGED <<db, settings, environ, secret_file, confirmCalls, failCalls,
                   request, response, located, deliveries, workers>>

NextPure == Verify \/ Decrypt \/ Locate \/ MapStatus

SpecPure == Init /\ [][NextPure]_vars

\* ------------------------------------------------------------------------
\* Properties
\* ------------------------------------------------------------------------

Ok == [status |-> 200, body |-> "OK"]

IsV2(req) == req.method = "POST" /\ req.bodyKind = "json"

\* The webhook secret of an organizer, "" when none is configured.
SecretOf(o) == get_setting(o, "webhook_secret", "")

\* The request is a Completed notification: any v1 request, or a v2 body
\* whose status is paid or success.
CompletedNotification(req) ==
    \/ req.method = "GET"
    \/ req.method = "POST" /\ req.bodyKind = "form"
    \/ /\ IsV2(req)
       /\ ~req.body.encrypted
       /\ req.body.wrap = "none"
       /\ StatusBranch(StatusOf(req.body.tx)) = "completed"

\* C1: over a sequential series of deliveries for one payment, confirm() is
\* invoked at most once per payment, however many Completed notifications
\* arrive.
C1_ConfirmAtMostOnce == \A p \in Payments : confirmCalls[p] <= 1

\* C2: once a payment is Confirmed or Refunded, no notification of any
\* outcome changes its state.
C2_TerminalStatesKept ==
    [][\A p \in Payments : AlreadyConfirmed(db[p].state) => db'[p].state = db[p].state]_vars

\* C3: when Completed notifications for one Pending payment are handled
\* concurrently, confirm() is invoked at most once, and once all handlers
\* have answered the payment is Confirmed.
C3_ConcurrentConfirmOnce ==
    /\ \A p \in Payments : confirmCalls[p] <= 1
    /\ (\A w \in Workers : workers[w].pc = "idle") /\ confirmCalls["p1"] > 0
          => db["p1"].state = PAYMENT_STATE_CONFIRMED

\* The v2 notification of C4: identifier and status inside a nested
\* transaction object, signed with the secret of the payment's organizer.
NestedPaid ==
    JsonPost(PlainBody("none", NestedTx(IdentifierOf("p1"), <<"Paid">>)), SignB64("s1", "body"), "", "none")

\* C4: a v2 POST that carries identifier and status Paid inside a nested
\* transaction object, validly signed, for a Pending payment, is answered
\* 200, leaves the payment Confirmed, and the stored info holds the
\* transaction object.
C4_NestedPaidConfirms ==
    [][(/\ request' = NestedPaid
        /\ SecretOf("o1") = "s1"
        /\ db["p1"].state = PAYMENT_STATE_PENDING)
       => /\ response'.status = 200
          /\ db'["p1"].state = PAYMENT_STATE_CONFIRMED
          /\ \A k \in DOMAIN NestedPaid.body.tx :
                k \in DOMAIN db'["p1"].info /\ db'["p1"].info[k] = NestedPaid.body.tx[k]]_vars

\* Every organizer has a secret and none is in debug mode.
AllSecured == \A o \in Organizers : SecretOf(o) # "" /\ ~debug_mode(o)

\* The signature is not the HMAC of the raw body under secret, in any encoding.
Mismatched(signature, secret) ==
    signature.enc # "absent" /\ ~(signature.key = secret /\ signature.msg = "body")

\* C5: a v2 request whose X-Signature is present but is not the HMAC of the
\* body under the configured secret, debug mode off, is answered 400 and
\* changes no payment.
C5_BadSignatureRejected ==
    [][(/\ IsV2(request')
        /\ ~request'.body.encrypted
        /\ AllSecured
        /\ \A o \in Organizers : Mismatched(request'.signature, SecretOf(o)))
       => response'.status = 400 /\ db' = db]_vars

\* C6: with a secret configured and debug mode off, a v2 request without
\* X-Signature is answered 400 and changes no payment.
C6_MissingSignatureRejected ==
    [][(/\ IsV2(request')
        /\ request'.signature = NoSignature
        /\ located' # NoPayment
        /\ SecretOf(PaymentRow[located'].organizer) # ""
        /\ ~debug_mode(PaymentRow[located'].organizer))
       => response'.status = 400 /\ db' = db]_vars

\* C7: a 200 OK answer to a Completed notification of a located payment
\* implies that the payment is Confirmed or Refunded (a reconciliation step
\* that raised is answered 500).
C7_OkImpliesConfirmed ==
    (response = Ok /\ located # NoPayment /\ CompletedNotification(request))
        => AlreadyConfirmed(db[located].state)

\* C8: no payment's persisted info carries the webhook_confirmed_at stamp of
\* the Completed handler while its state is not Confirmed.
C8_StampOnlyWhenConfirmed ==
    \A p \in Payments :
        "webhook_confirmed_at" \in DOMAIN db[p].info => db[p].state = PAYMENT_STATE_CONFIRMED

\* C9: a GET with referencia, identificador and valor that resolves to a
\* Pending payment is handled as v1: the payment becomes Confirmed through
\* one confirm() and the answer is 200 OK, whatever X-Signature the request
\* carries (the host calls not failing).
C9_LegacyGetConfirms ==
    [][(/\ request'.method = "GET"
        /\ {"referencia", "identificador", "valor"} \subseteq DOMAIN request'.query
        /\ request'.fault = "none"
        /\ located' # NoPayment
        /\ db[located'].state = PAYMENT_STATE_PENDING)
       => /\ response' = Ok
          /\ db'[located'].state = PAYMENT_STATE_CONFIRMED
          /\ confirmCalls'[located'] = confirmCalls[located'] + 1]_vars

\* A first delivery, a GET carrying a signature that matches no secret while
\* the organizer has a secret and debug mode is off, has confirmed p1.
C9_Witness ==
    /\ deliveries = 1
    /\ request.method = "GET"
    /\ request.signature # NoSignature
    /\ SecretOf("o1") = "s1" /\ ~debug_mode("o1")
    /\ located = "p1"
    /\ response = Ok
    /\ db["p1"].state = PAYMENT_STATE_CONFIRMED
    /\ confirmCalls["p1"] = 1

\* Some key the decryptor can derive turns the data string into JSON.
DecryptsToJson(req) ==
    LET c == req.body.data
        secret == WebhookSecretDecrypt(WebhookSecretV2)
    IN  /\ secret # ""
        /\ ValidIV(req.iv)
        /\ c.wellFormed
        /\ \E key \in {KeyFromHash(secret), KeyDirect(secret), KeyFromIV(req.iv)} :
              ParsesAsJson(AESDecrypt(c, key, req.iv))

\* C10: a v2 request whose body has a data string that does not decrypt to
\* JSON (wrong or missing IV, wrong or missing secret, malformed input) is
\* answered 400; no payment is located and none is modified.
C10_DecryptFailureRejected ==
    [][(/\ IsV2(request')
        /\ request'.body.encrypted
        /\ ~DecryptsToJson(request'))
       => /\ response'.status = 400
          /\ located' = NoPayment
          /\ db' = db
          /\ confirmCalls' = confirmCalls
          /\ failCalls' = failCalls]_vars

\* An encrypted notification made with the configured secret arrived with
\* another IV than it was encrypted with, and was rejected.
C10_Witness ==
    /\ IsV2(request)
    /\ request.body.encrypted
    /\ WebhookSecretV2 = "s1"
    /\ request.body.data.key = KeyFromHash("s1")
    /\ ValidIV(request.iv)
    /\ request.iv # request.body.data.iv
    /\ response = [status |-> 400, body |-> "Decryption failed"]
    /\ located = NoPayment

\* The request reaches the locator of the v1 handler.
V1Lookup(req) ==
    /\ req.method = "GET" \/ (req.method = "POST" /\ req.bodyKind = "form")
    /\ required_params \subseteq DOMAIN req.query
          \/ (req.method = "POST" /\ DOMAIN req.query = {} /\ required_params \subseteq DOMAIN req.form)

\* The parameters a v1 request is read from.
V1ParamsOf(req) == IF DOMAIN req.query = {} /\ req.method = "POST" THEN req.form ELSE req.query

\* The request reaches the locator of the v2 handler with an unencrypted body.
V2Lookup(req) ==
    /\ IsV2(req)
    /\ ~req.body.encrypted
    /\ req.body.wrap # "empty"
    /\ IdentifierV2(req.body.tx) # EmptyStr \/ ReferenceV2(req.body.tx) # EmptyStr

\* No row of the plugin's providers answers to the identifier or the reference:
\* none has the order code and local id the identifier names, and none of the
\* rows the scan reads holds the identifier or the reference in its info.
NothingMatches(rows, identifier, reference) ==
    \A p \in Payments :
        EuPagoFamily(p)
        => /\ IdentifierOf(p) # identifier
           /\ PaymentRow[p].newer < ScanLimit
                 => /\ identifier # EmptyStr => ~Occurs(identifier, rows[p].info)
                    /\ reference # EmptyStr => ~Occurs(reference, rows[p].info)

\* C11: when no payment answers to the identifier and reference of a webhook
\* (v1 or v2), the answer is 200 and no payment's state or info changes.
C11_LookupMissSoftAccepted ==
    [][(\/ /\ V1Lookup(request')
           /\ NothingMatches(db, Get(V1ParamsOf(request'), "identificador"),
                             Get(V1ParamsOf(request'), "referencia"))
        \/ /\ V2Lookup(request')
           /\ NothingMatches(db, IdentifierV2(request'.body.tx), ReferenceV2(request'.body.tx)))
       => /\ response'.status = 200
          /\ located' = NoPayment
          /\ db' = db]_vars

\* A v2 notification naming an unknown payment was answered 200 after an
\* earlier delivery had confirmed p1.
C11_Witness ==
    /\ IsV2(request)
    /\ IdentifierV2(request.body.tx) = UnknownIdentifier
    /\ response = [status |-> 200, body |-> "Payment not found"]
    /\ located = NoPayment
    /\ db["p1"].state = PAYMENT_STATE_CONFIRMED

\* No identifier or reference field of the transaction object has a value.
CarriesNeither(tx) ==
    \A k \in DOMAIN tx :
        k \in {"identifier", "identificador", "reference", "referencia",
               "transaction.identifier", "transaction.identificador",
               "transaction.reference", "transaction.referencia"}
        => tx[k] = EmptyStr

ByteApart ==
    {<<"plainA", "plainB">>, <<"plainB", "plainA">>,
     <<"envA", "envB">>, <<"envB", "envA">>,
     <<"envA", "envC">>, <<"envC", "envA">>}

\* The message the gateway signs: the data string of an envelope, else the body.
SignedMessage(b) == IF VerifyPayload(b).hasData THEN VerifyPayload(b).dataName ELSE b

\* The X-Signature the gateway sends for a body.
Sign(b, secret) == SignB64(secret, SignedMessage(b))

C14_HexDigestAccepted ==
    (probe.fn = "verify" /\ SecretOf(probe.organizer) # "")
    => LET secret == SecretOf(probe.organizer)
           m == SignedMessage(probe.body)
       IN  probe.signature \in {SignHex(secret, m), SignB64(secret, m)} => probe.result

\* C15: an encrypted v2 notification signed over its data string with the
\* secret of the payment's organizer passes verification once it decrypted
\* and its payment is located: it is not answered 400.
C15_EnvelopeSignedOverData ==
    [][(/\ IsV2(request')
        /\ request'.body.encrypted
        /\ located' # NoPayment
        /\ SecretOf(PaymentRow[located'].organizer) # ""
        /\ request'.signature = SignB64(SecretOf(PaymentRow[located'].organizer), "data"))
       => response'.status # 400]_vars

\* C16: the decryptor returns the plaintext of a ciphertext that was made
\* from a JSON object with the IV of the header and a key derived from the
\* secret, by SHA-256 or directly.
C16_DecryptRoundTrip ==
    (/\ probe.fn = "decrypt"
     /\ probe.data.iv = probe.iv
     /\ probe.data.key \in {KeyFromHash(probe.secret), KeyDirect(probe.secret)}
     /\ probe.data.pt.kind = "object")
    => probe.result = probe.data.pt

\* C17: for an identifier {order code}-P-{local id} that names a payment of
\* the plugin's providers, the locator returns a payment of these providers
\* with that order code and local id, whatever the reference is.
C17_IdentifierLocates ==
    (/\ probe.fn = "find"
     /\ \E p \in Payments : EuPagoFamily(p) /\ IdentifierOf(p) = probe.identifier)
    => /\ probe.result # NoPayment
       /\ EuPagoFamily(probe.result)
       /\ IdentifierOf(probe.result) = probe.identifier

\* The identifier of p1 was looked up together with the reference stored on p2.
C17_Witness ==
    /\ probe.fn = "find"
    /\ probe.identifier = IdentifierOf("p1")
    /\ probe.reference = <<"555001">>
    /\ Occurs(probe.reference, db["p2"].info)
    /\ probe.result = "p1"

\* C18 as stated: given only a reference that occurs in the info of some
\* payment of the plugin's providers, the locator returns a payment whose
\* info contains it.
C18_ReferenceLocates ==
    (/\ probe.fn = "find"
     /\ probe.identifier = EmptyStr
     /\ probe.reference # EmptyStr
     /\ \E p \in Payments : EuPagoFamily(p) /\ Occurs(probe.reference, db[p].info))
    => /\ probe.result # NoPayment
       /\ Occurs(probe.reference, db[probe.result].info)

\* C18: given only a reference that occurs in the info of one of the fifty
\* newest payments of the plugin's providers, the locator returns a payment
\* whose info contains it.
C18_RecentReferenceLocates ==
    (/\ probe.fn = "find"
     /\ probe.identifier = EmptyStr
     /\ probe.reference # EmptyStr
     /\ \E p \in Payments : /\ EuPagoFamily(p)
                            /\ PaymentRow[p].newer < ScanLimit
                            /\ Occurs(probe.reference, db[p].info))
    => /\ probe.result # NoPayment
       /\ EuPagoFamily(probe.result)
       /\ Occurs(probe.reference, db[probe.result].info)

\* The reference stored on p2 under the key referencia was looked up alone.
C18_Witness ==
    /\ probe.fn = "find"
    /\ probe.identifier = EmptyStr
    /\ probe.reference = <<"555001">>
    /\ probe.result = "p2"

\* The statuses the dispatcher knows, in lower case.
KnownStatuses ==
    {<<"paid">>, <<"success">>, <<"error">>, <<"failed">>, <<"failure">>,
     <<"cancel">>, <<"cancelled">>, <<"expired">>}

\* C19: every status of a v2 notification that is verified and whose payment
\* is located is handled without raising (the host calls not failing): the
\* answer is 200 OK, and for a status the dispatcher does not know no
\* transition is made and neither confirm() nor fail() is called.
C19_StatusDispatchTotal ==
    [][(/\ V2Lookup(request')
        /\ located' # NoPayment
        /\ response'.body # "Invalid signature"
        /\ request'.fault = "none")
       => /\ response' = Ok
          /\ StatusOf(request'.body.tx) \notin KnownStatuses
                => /\ db'[located'].state = db[located'].state
                   /\ confirmCalls' = confirmCalls
                   /\ failCalls' = failCalls]_vars

\* A notification of p1 with a status the dispatcher does not know was
\* answered 200 OK and its payload stored.
C19_Witness ==
    /\ V2Lookup(request)
    /\ Get(request.body.tx, "status") = <<"Bogus">>
    /\ located = "p1"
    /\ response = Ok
    /\ Get(db["p1"].info, "status") = <<"Bogus">>

\* The outcome the token table gives a status token.
TableOutcome(t) ==
    CASE t \in {"Success", "Sucesso", "paid", "completed"} -> "completed"
      [] t \in {"Failed", "Falhado", "failed", "error"} -> "failed"
      [] t \in {"Cancelled", "Cancelado", "canceled"} -> "cancelled"
      [] t \in {"Expired", "Expirado", "timeout"} -> "expired"
      [] OTHER -> "none"

\* C20: for every token of the table, the webhook dispatcher,
\* process_webhook_payment_update and _update_payment_from_status_response
\* take the outcome the table gives it.
C20_MappersAgreeWithTable ==
    (probe.fn = "status" /\ TableOutcome(probe.token) # "none")
    => /\ probe.dispatcher = TableOutcome(probe.token)
       /\ probe.webhook_update = TableOutcome(probe.token)
       /\ probe.status_response = TableOutcome(probe.token)

\* C21: no webhook update of any outcome drops a key of a payment's info:
\* every key present before the update is present after it.
C21_InfoKeysKept ==
    [][\A p \in Payments : DOMAIN db[p].info \subseteq DOMAIN db'[p].info]_vars

\* ------------------------------------------------------------------------
\* Redelivery: the gateway sends one request again
\* ------------------------------------------------------------------------

\* Notifications that bring p1 into the states a redelivered request may find.
PriorRequests ==
    SeriesRequests
    \cup {JsonPost(PlainBody("none", Flat(IdentifierOf("p1"), <<"Failed">>)), NoSignature, "", "none")}

\* Every request of the model.
AllRequests == GetRequests \cup PostRequests

\* An earlier notification, before the request under redelivery arrives.
Prior(req) ==
    /\ probe = NoProbe
    /\ deliveries < MaxPrior
    /\ req \in PriorRequests
    /\ UNCHANGED probe

\* The first delivery of the request.
First(req) ==
    /\ probe = NoProbe
    /\ probe' = [fn |-> "redelivery", count |-> 1]

\* The same request is delivered again.
Redeliver(req) ==
    /\ probe.fn = "redelivery"
    /\ probe.count < 1 + MaxRepeats
    /\ req = request
    /\ probe' = [probe EXCEPT !.count = @ + 1]

\* One delivery of the series: an earlier notification, the request, or the
\* request again.
Redelivery ==
    \E req \in AllRequests :
        /\ Prior(req) \/ First(req) \/ Redeliver(req)
        /\ HandleRequest(req)

NextRedeliver == Redelivery

SpecRedeliver == Init /\ [][NextRedeliver]_vars

ReturnedInfo(info) ==
    Merge(info, [k \in {"success_url_returned", "success_url_returned_at"} |->
                    IF k = "success_url_returned" THEN <<"true">> ELSE NowStamp])

\* A return view that would cancel a Pending payment whatever the status.
ReturnAlwaysBack(rows, cc, fc, p, status, fault) ==
    IF rows[p].state = PAYMENT_STATE_PENDING
    THEN Effect([rows EXCEPT ![p].state = PAYMENT_STATE_CANCELED], cc, fc, FALSE)
    ELSE Effect(rows, cc, fc, FALSE)

\* EuPagoReturnView.get: what it leaves behind for the status of the URL.
ReturnViewGet(rows, cc, fc, p, status, fault) ==
    CASE status = "success" ->
            IF rows[p].state = PAYMENT_STATE_CONFIRMED THEN Effect(rows, cc, fc, FALSE)
            ELSE Effect(SaveInfo(rows, p, ReturnedInfo(rows[p].info)), cc, fc, FALSE)
      [] status = "fail" ->
            IF rows[p].state \in {PAYMENT_STATE_FAILED, PAYMENT_STATE_CANCELED}
            THEN Effect(rows, cc, fc, FALSE)
            ELSE IF fault = "transition" THEN Effect(rows, cc, Bump(fc, p), FALSE)
            ELSE Effect(HostFail(rows, p, [k \in {"reason"} |-> <<"User returned from fail URL">>]),
                        cc, Bump(fc, p), FALSE)
      [] status = "back" ->
            IF rows[p].state = PAYMENT_STATE_PENDING
            THEN Effect([rows EXCEPT ![p].state = PAYMENT_STATE_CANCELED], cc, fc, FALSE)
            ELSE Effect(rows, cc, fc, FALSE)
      [] OTHER -> Effect(rows, cc, fc, FALSE)

\* The status segment of the return URL ("none" when the URL has none).
ReturnStatuses == {"success", "fail", "back", "none"}

\* EuPagoBaseProvider._should_auto_confirm_payment
_should_auto_confirm_payment(api_response) ==
    \/ Get(api_response, "estado") = <<"Pago">>
    \/ Get(api_response, "status") = <<"paid">>
    \/ Get(api_response, "state") = <<"confirmed">>
    \/ Get(api_response, "payment_status") = <<"paid">>

\* EuPagoBaseProvider._handle_payment_response
_handle_payment_response(rows, cc, fc, p, api_response) ==
    IF _should_auto_confirm_payment(api_response)
    THEN Effect(HostConfirm(rows, p, api_response), Bump(cc, p), fc, FALSE)
    ELSE Effect(SaveStateInfo(rows, p, PAYMENT_STATE_PENDING, api_response), cc, fc, FALSE)

\* EuPagoMBWay.execute_payment from the gateway's answer on: the answer is
\* handled when it reports the request as accepted, and otherwise the payment
\* is failed with the error.
execute_payment(rows, cc, fc, p, api_response) ==
    IF Get(api_response, "estado") = <<"Pendente">> \/ Get(api_response, "transactionStatus") = <<"Success">>
    THEN _handle_payment_response(rows, cc, fc, p, api_response)
    ELSE Effect(HostFail(rows, p, [k \in {"error"} |-> <<"MBWay payment initialization failed">>]),
                cc, Bump(fc, p), TRUE)

\* status_response.get('status') or .get('transactionStatus') or .get('estado')
ResponseStatus(api_response) ==
    OrElse(Get(api_response, "status"), OrElse(Get(api_response, "transactionStatus"), Get(api_response, "estado")))

\* EuPagoBaseProvider._update_payment_from_status_response
_update_payment_from_status_response(rows, cc, fc, p, status_response) ==
    LET branch == StatusResponseBranch(ResponseStatus(status_response))
    IN  CASE branch = "completed" ->
                Effect(HostConfirm(rows, p, status_response), Bump(cc, p), fc, FALSE)
          [] branch = "failed" ->
                Effect(HostFail(rows, p, status_response), cc, Bump(fc, p), FALSE)
          [] branch = "expired" ->
                Effect(SaveStateInfo(rows, p, PAYMENT_STATE_CANCELED, status_response), cc, fc, FALSE)
          [] OTHER -> Effect(SaveInfo(rows, p, status_response), cc, fc, FALSE)

\* Responses of the gateway to a creation or a status request.
GatewayResponses ==
    {[k \in {"estado"} |-> <<"Pendente">>],
     [k \in {"transactionStatus"} |-> <<"Success">>],
     [k \in {"transactionStatus", "status"} |->
         IF k = "status" THEN <<"paid">> ELSE <<"Success">>],
     [k \in {"estado"} |-> <<"Pago">>],
     [k \in {"status"} |-> <<"Expired">>],
     [k \in {"status"} |-> <<"Pending">>]}

PaymentExceptionOf(message) == [kind |-> "PaymentException", message |-> message]

AuthenticationFailed == "Authentication failed. Please check your EuPago API key configuration."
AccessDenied == "Access denied. Please verify your EuPago API permissions."
CommunicationFailed == "Payment provider communication failed. Please try again later."

\* What the HTTP call of _make_api_request does: it returns a 2xx response
\* with a JSON body, raises a requests.RequestException without a response
\* (Timeout, ConnectionError), gets a non-2xx response (raise_for_status
\* raises HTTPError, which carries it), or raises another exception.
HttpOutcomes == {"ok", "Timeout", "ConnectionError", "HTTP401", "HTTP403", "HTTP404", "HTTP500", "Exception"}

\* EuPagoBaseProvider._make_api_request: what the caller gets.
_make_api_request(outcome) ==
    CASE outcome = "ok" -> [kind |-> "return", message |-> ""]
      [] outcome = "HTTP401" -> PaymentExceptionOf(AuthenticationFailed)
      [] outcome = "HTTP403" -> PaymentExceptionOf(AccessDenied)
      [] outcome \in {"Timeout", "ConnectionError", "HTTP404", "HTTP500"} ->
            PaymentExceptionOf(CommunicationFailed)
      [] OTHER -> [kind |-> outcome, message |-> "API Error"]

\* Apply an effect of one of the flows to the state.
Applied(e) ==
    /\ db' = e.db
    /\ confirmCalls' = e.cc
    /\ failCalls' = e.fc
    /\ UNCHANGED <<settings, environ, secret_file, request, response, located, deliveries, workers>>

\* The customer comes back from the gateway on the return URL of a payment.
ReturnGet ==
    /\ probe = NoProbe
    /\ \E p \in {q \in Payments : EuPagoFamily(q)}, status \in ReturnStatuses, fault \in {"none", "transition"} :
          /\ Applied(ReturnViewGet(db, confirmCalls, failCalls, p, status, fault))
          /\ probe' = [fn |-> "return", payment |-> p, status |-> status]

\* The gateway answers the creation request of an MBWay payment.
PaymentResponse ==
    /\ probe = NoProbe
    /\ \E p \in {q \in Payments : PaymentRow[q].provider = "eupago_mbway"}, r \in GatewayResponses :
          /\ Applied(execute_payment(db, confirmCalls, failCalls, p, r))
          /\ probe' = [fn |-> "payment_response", payment |-> p, response |-> r]

\* The gateway answers a status request for a payment.
StatusResponse ==
    /\ probe = NoProbe
    /\ \E p \in {q \in Payments : EuPagoFamily(q)}, r \in GatewayResponses :
          /\ Applied(_update_payment_from_status_response(db, confirmCalls, failCalls, p, r))
          /\ probe' = [fn |-> "status_response", payment |-> p, response |-> r]

\* One outbound call to the gateway.
ApiRequest ==
    /\ probe = NoProbe
    /\ \E outcome \in HttpOutcomes :
          probe' = [fn |-> "api", outcome |-> outcome, result |-> _make_api_request(outcome)]
    /\ UNCHANGED <<db, settings, environ, secret_file, confirmCalls, failCalls,
                   request, response, located, deliveries, workers>>

\* A notification of p1 arrives, before or after the other flow.
FlowNotify == \E req \in SeriesRequests : deliveries < MaxFlowDeliveries /\ Handle(req)

NextFlows == FlowNotify \/ ReturnGet \/ PaymentResponse \/ StatusResponse \/ ApiRequest

SpecFlows == Init /\ [][NextFlows]_vars

\* C23: EuPagoReturnView.get changes the state of no payment, whatever the
\* status of the return URL and the state of the payment.
C23_ReturnKeepsState ==
    [][(probe = NoProbe /\ probe'.fn = "return")
       => \A p \in Payments : db'[p].state = db[p].state]_vars

\* C24: confirm() is called only by the Completed handler of the webhook:
\* every step that calls it is the delivery of a Completed notification, never
\* the return view, the handling of a creation response or of a status response.
C24_OnlyWebhookConfirms ==
    [][(\E p \in Payments : confirmCalls'[p] > confirmCalls[p])
       => /\ deliveries' = deliveries + 1
          /\ CompletedNotification(request')
          /\ probe' = probe]_vars

\* C25: every failure of the HTTP call of _make_api_request reaches the caller
\* as a PaymentException: with the authentication message for 401, the access
\* message for 403, and the communication-failed message otherwise.
C25_FailuresArePaymentExceptions ==
    (probe.fn = "api" /\ probe.outcome # "ok")
    => probe.result = PaymentExceptionOf(CASE probe.outcome = "HTTP401" -> AuthenticationFailed
                                           [] probe.outcome = "HTTP403" -> AccessDenied
                                           [] OTHER -> CommunicationFailed)

\* The gateway secret of an organizer by the ordered chain: the organizer's
\* settings under the legacy key names in their order, then the environment
\* variable, then the local secret file; the first non-empty value.
ChainSecret(o) ==
    LET s == FirstKey(o, <<"payment_eupago_webhook_secret", "eupago_webhook_secret",
                           "webhook_secret", "payment_webhook_secret">>, 1)
    IN  IF s # "" THEN s ELSE EnvOrFile

\* Verification of a payload against a signature under a given secret.
VerifiesUnder(secret, payload, signature) ==
    \/ secret = ""
    \/ /\ signature.enc # "absent"
       /\ B64Decode(signature).ok
       /\ B64Decode(signature).bytes =
             HmacSha256(secret, IF payload.hasData THEN payload.dataName ELSE payload.name)

\* C26: the signature verifier uses the secret the ordered chain gives for
\* the organizer (settings, then environment variable, then secret file), as
\* the decryptor does: its verdict is the verdict under that secret.
C26_VerifierUsesChainSecret ==
    probe.fn = "verify"
    => probe.result = VerifiesUnder(ChainSecret(probe.organizer), VerifyPayload(probe.body), probe.signature)

\* The statuses of the responses of the webhook.
ResponseStatuses == {200, 400, 500, 501}

\* C27: every request handed to webhook is answered, with status 200, 400,
\* 500 or 501: no exception escapes to the host, and an envelope whose
\* plaintext is again an envelope is handled to the end.
C27_AlwaysAnswered ==
    [][deliveries' = deliveries + 1
       => /\ response'.status \in ResponseStatuses
          /\ response'.body # ""]_vars

\* An envelope whose plaintext was again an envelope was decrypted twice and
\* its notification confirmed p1.
C27_Witness ==
    /\ IsV2(request)
    /\ request.body.encrypted
    /\ request.body.data.pt = EnvelopePlain("iv1")
    /\ located = "p1"
    /\ response = Ok
    /\ db["p1"].state = PAYMENT_STATE_CONFIRMED

\* C28: a v2 notification that names a payment and carries an X-Signature that
\* is the HMAC of its body under no configured secret, debug mode off
\* everywhere, is answered 400 'Invalid signature' whether or not a payment
\* answers to its identifier.
C28_VerifiedBeforeLookup ==
    [][(/\ V2Lookup(request')
        /\ AllSecured
        /\ \A o \in Organizers : Mismatched(request'.signature, SecretOf(o)))
       => response' = [status |-> 400, body |-> "Invalid signature"]]_vars

\* The payload the v2 handler hands to the verifier for an unencrypted body.
RawBody == [name |-> "body", hasData |-> FALSE, dataName |-> "data"]

\* The debug mode setting of the organizer is switched on.
DebugOn(o) == get_setting(o, "debug_mode", "false") = "true"

\* The request with X-Signature replaced by the base64 HMAC of its body under
\* the organizer's secret.
ValidlySigned(req, o) == [req EXCEPT !.signature = SignB64(SecretOf(o), "body")]

\* C29: with debug mode on, a v2 notification of a located payment whose
\* X-Signature is present and invalid leaves the payments, the host calls and
\* the response that the same notification with a valid signature leaves.
C29_DebugProceedsAsValid ==
    [][(/\ V2Lookup(request')
        /\ located' # NoPayment
        /\ DebugOn(PaymentRow[located'].organizer)
        /\ SecretOf(PaymentRow[located'].organizer) # ""
        /\ request'.signature.enc # "absent"
        /\ ~_validate_webhook_signature(PaymentRow[located'].organizer, RawBody, request'.signature))
       => LET valid == webhook(db, confirmCalls, failCalls,
                               ValidlySigned(request', PaymentRow[located'].organizer))
          IN  /\ _validate_webhook_signature(PaymentRow[located'].organizer, RawBody,
                                             ValidlySigned(request', PaymentRow[located'].organizer).signature)
              /\ db' = valid.db
              /\ confirmCalls' = valid.cc
              /\ failCalls' = valid.fc
              /\ response' = valid.response
              /\ located' = valid.located]_vars

\* In debug mode a Paid notification of p1 signed over other bytes was
\* processed: p1 is Confirmed and the answer is 200 OK.
C29_Witness ==
    /\ V2Lookup(request)
    /\ located = "p1"
    /\ DebugOn("o1")
    /\ SecretOf("o1") = "s1"
    /\ request.signature = SignB64("s1", "other")
    /\ request.fault = "none"
    /\ StatusOf(request.body.tx) = <<"paid">>
    /\ response = Ok
    /\ db["p1"].state = PAYMENT_STATE_CONFIRMED
    /\ confirmCalls["p1"] = 1

\* Values of the X-Signature header: none, and base64 and hexadecimal HMACs
\* over the body or over other bytes, well or ill encoded.
HeaderValues ==
    {NoSignature, SignB64("s2", "body"), SignHex("s1", "body")}
    \cup {[enc |-> "b64", key |-> "s1", msg |-> m, bits |-> x] :
            m \in {"body", "other"}, x \in SignatureBits}

\* The bodies delivered under each value of the header: notifications of p1,
\* of no payment, without identifier, and envelopes made with the secret of
\* the first organizer that hold a notification of p1 and of p2.
HeaderBodies ==
    {PlainBody("none", Flat(IdentifierOf("p1"), st)) : st \in {<<"Paid">>, <<"Failed">>, <<"Bogus">>}}
    \cup {PlainBody("none", Flat(UnknownIdentifier, <<"Paid">>)),
          PlainBody("none", [k \in {"status"} |-> <<"Paid">>]),
          EncryptedBody(Encrypt(KeyFromHash("s1"), "iv1", PaidPlain, "nonutf8")),
          EncryptedBody(Encrypt(KeyFromHash("s1"), "iv1",
                                ObjectPlain(PlainBody("none", Flat(IdentifierOf("p2"), <<"Paid">>))),
                                "nonutf8"))}

HeaderRequests == {JsonPost(b, sig, "iv1", "none") : b \in HeaderBodies, sig \in HeaderValues}

DeliverSigned == \E req \in HeaderRequests : deliveries < MaxSigned /\ Handle(req)

NextHeaders == DeliverSigned

SpecHeaders == Init /\ [][NextHeaders]_vars

\* C30: while no organizer has a webhook secret, the verifier returns true for
\* every payload and every signature value, and a v2 request leaves the same
\* payments, host calls, response and located payment whatever its X-Signature.
C30_NoSecretIgnoresSignature ==
    [][(/\ IsV2(request')
        /\ \A o \in Organizers : SecretOf(o) = "")
       => /\ \A o \in Organizers, sig \in HeaderValues :
                \A payload \in {RawBody, VerifyPayload("plainA"), VerifyPayload("envA")} :
                    _validate_webhook_signature(o, payload, sig)
          /\ \A sig \in HeaderValues :
                LET other == webhook(db, confirmCalls, failCalls, [request' EXCEPT !.signature = sig])
                IN  /\ db' = other.db
                    /\ confirmCalls' = other.cc
                    /\ failCalls' = other.fc
                    /\ response' = other.response
                    /\ located' = other.located]_vars

\* With no secret anywhere, a Paid notification of p1 carrying an X-Signature
\* made with s1 over other bytes was processed: 200 OK and p1 Confirmed.
C30_Witness ==
    /\ \A o \in Organizers : SecretOf(o) = ""
    /\ environ = "" /\ secret_file = ""
    /\ V2Lookup(request)
    /\ request.signature = SignB64("s1", "other")
    /\ StatusOf(request.body.tx) = <<"paid">>
    /\ located = "p1"
    /\ response = Ok
    /\ db["p1"].state = PAYMENT_STATE_CONFIRMED
    /\ confirmCalls["p1"] = 1

\* C31: when the bytes decrypted under the SHA-256 key are not valid JSON and
\* those decrypted under the raw secret, padded or cut to 32 bytes, are, the
\* decryptor returns the latter; it never returns a non-JSON result of the
\* SHA-256 derivation.
C31_FallsBackToRawSecret ==
    (/\ probe.fn = "decrypt"
     /\ ValidIV(probe.iv)
     /\ probe.data.wellFormed
     /\ ~ParsesAsJson(AESDecrypt(probe.data, KeyFromHash(probe.secret), probe.iv))
     /\ ParsesAsJson(AESDecrypt(probe.data, KeyDirect(probe.secret), probe.iv)))
    => probe.result = AESDecrypt(probe.data, KeyDirect(probe.secret), probe.iv)

\* ------------------------------------------------------------------------
\* Notifications of every outcome for payments in every state
\* ------------------------------------------------------------------------

OutcomeRequests ==
    {JsonPost(PlainBody("none", Flat(IdentifierOf(p), st)), NoSignature, "", "none") :
        p \in {"p1", "p2"}, st \in Statuses}

NotifyOutcome == \E req \in OutcomeRequests : deliveries < MaxOutcomes /\ Handle(req)

NextOutcomes == NotifyOutcome

SpecOutcomes == Init /\ [][NextOutcomes]_vars

\* The v2 notification carries a status the dispatcher maps to no handler
\* (Pending or an unknown status).
PendingOrUnknown(req) ==
    V2Lookup(req) /\ StatusBranch(StatusOf(req.body.tx)) = "other"

\* C32: a Pending or Unknown notification of a located payment replaces the
\* payment's info by the payload in every state and leaves the state as it
\* is, except that a Created payment becomes Pending.
C32_PendingAdvancesCreated ==
    [][(/\ deliveries' = deliveries + 1
        /\ PendingOrUnknown(request')
        /\ located' # NoPayment)
       => /\ db'[located'].info = request'.body.tx
          /\ db'[located'].state =
                IF db[located'].state = PAYMENT_STATE_CREATED
                THEN PAYMENT_STATE_PENDING
                ELSE db[located'].state]_vars

\* C33: for a located payment in any state, an Expired and a Cancelled
\* notification with the same payload leave the same state and info: nothing
\* changes when the payment is Canceled already, and otherwise it becomes
\* Canceled with the payload as its info.
C33_ExpiredIsCancelled ==
    [][(/\ deliveries' = deliveries + 1
        /\ V2Lookup(request')
        /\ StatusBranch(StatusOf(request'.body.tx)) \in {"cancelled", "expired"}
        /\ located' # NoPayment)
       => LET p == located'
              data == request'.body.tx
              cancelled == _handle_payment_cancelled(db, confirmCalls, failCalls, p, data, request'.fault)
              expired == _handle_payment_expired(db, confirmCalls, failCalls, p, data, request'.fault)
          IN  /\ expired = cancelled
              /\ db' = expired.db
              /\ db[p].state = PAYMENT_STATE_CANCELED => db' = db
              /\ db[p].state # PAYMENT_STATE_CANCELED
                    => db' = [db EXCEPT ![p] = [state |-> PAYMENT_STATE_CANCELED, info |-> data]]]_vars

\* An Expired notification reached p2 after an earlier notification: p2 is
\* Canceled and its info is the payload.
C33_Witness ==
    /\ deliveries = 2
    /\ V2Lookup(request)
    /\ StatusOf(request.body.tx) = <<"expired">>
    /\ located = "p2"
    /\ response = Ok
    /\ db["p2"] = [state |-> PAYMENT_STATE_CANCELED, info |-> request.body.tx]
    /\ db["p1"].state = PAYMENT_STATE_CONFIRMED

\* C34: a v2 notification of a located payment whose status the dispatcher
\* does not recognize leaves every payment's state as it is, calls neither
\* confirm() nor fail(), and stores the payload as the payment's info.
C34_UnknownStatusKeepsState ==
    [][(/\ deliveries' = deliveries + 1
        /\ PendingOrUnknown(request')
        /\ located' # NoPayment)
       => /\ \A p \in Payments : db'[p].state = db[p].state
          /\ \A p \in Payments \ {located'} : db'[p] = db[p]
          /\ db'[located'].info = request'.body.tx
          /\ confirmCalls' = confirmCalls
          /\ failCalls' = failCalls
          /\ response' = Ok]_vars

\* A notification with the status Bogus reached p2 while it was Created: the
\* state is still Created and the info is the payload.
C34_Witness ==
    /\ deliveries > 0
    /\ V2Lookup(request)
    /\ StatusOf(request.body.tx) = <<"bogus">>
    /\ located = "p2"
    /\ response = Ok
    /\ db["p2"] = [state |-> PAYMENT_STATE_CREATED, info |-> request.body.tx]

\* ------------------------------------------------------------------------
\* Lookups after notifications that stored a reference on a second payment
\* ------------------------------------------------------------------------

WithReference(identifier, reference, status) ==
    [k \in {"identifier", "reference", "status"} |->
        CASE k = "status" -> status
          [] k = "reference" -> reference
          [] OTHER -> identifier]

\* Notifications of p2 that carry the reference of p1 or of p4, and plain ones.
ScanRequests ==
    {JsonPost(PlainBody("none", WithReference(IdentifierOf("p2"), r, <<"Pending">>)), NoSignature, "", "none") :
        r \in {Reference1, <<"777001">>}}
    \cup {JsonPost(PlainBody("none", Flat(IdentifierOf(p), <<"Pending">>)), NoSignature, "", "none") :
            p \in {"p1", "p2"}}

NotifyScan == \E req \in ScanRequests : deliveries < MaxScanDeliveries /\ Handle(req)

NextScan == NotifyScan \/ Locate

SpecScan == Init /\ [][NextScan]_vars

\* Number of payments of the plugin's providers created after p.
Rank(p) ==
    PaymentRow[p].newer
        + Cardinality({q \in Payments : EuPagoFamily(q) /\ PaymentRow[q].created > PaymentRow[p].created})

\* The payments of the plugin's providers among the fifty newest whose info
\* contains the needle.
RecentMatches(rows, needle) ==
    {p \in Payments : EuPagoFamily(p) /\ Rank(p) < 50 /\ Occurs(needle, rows[p].info)}

\* C35: a lookup by reference alone returns a payment exactly when one of the
\* fifty newest payments of the plugin's providers holds the reference in its
\* info, and then the newest of these; an older payment is never returned.
C35_ScanBoundedNewestFirst ==
    [][(/\ probe = NoProbe
        /\ probe'.fn = "find"
        /\ probe'.identifier = EmptyStr
        /\ probe'.reference # EmptyStr)
       => LET hits == RecentMatches(db, probe'.reference)
          IN  /\ hits = {} => probe'.result = NoPayment
              /\ hits # {} => /\ probe'.result \in hits
                              /\ \A q \in hits :
                                    PaymentRow[q].created <= PaymentRow[probe'.result].created]_vars

\* The reference of p1 is also in the info of the newer p2, stored by a
\* notification: the lookup returned p2.
C35_Witness ==
    /\ probe.fn = "find"
    /\ probe.identifier = EmptyStr
    /\ probe.reference = Reference1
    /\ deliveries = 1
    /\ Occurs(Reference1, db["p1"].info)
    /\ Occurs(Reference1, db["p2"].info)
    /\ probe.result = "p2"

\* ------------------------------------------------------------------------
\* Status updates through the provider
\* ------------------------------------------------------------------------

\* What process_webhook_payment_update leaves behind, and what it returns.
Updated(rows, cc, fc, changed) == [db |-> rows, cc |-> cc, fc |-> fc, changed |-> changed]

\* EuPagoBaseProvider.process_webhook_payment_update
process_webhook_payment_update(rows, cc, fc, p, webhook_data) ==
    LET current_state == rows[p].state
        branch == WebhookUpdateBranch(ResponseStatus(webhook_data))
    IN  CASE branch = "completed" ->
                IF current_state # PAYMENT_STATE_CONFIRMED
                THEN Updated(HostConfirm(rows, p, webhook_data), Bump(cc, p), fc, TRUE)
                ELSE Updated(rows, cc, fc, FALSE)
          [] branch = "failed" ->
                IF current_state \notin {PAYMENT_STATE_FAILED, PAYMENT_STATE_CANCELED}
                THEN Updated(HostFail(rows, p, webhook_data), cc, Bump(fc, p), TRUE)
                ELSE Updated(rows, cc, fc, FALSE)
          [] branch = "pending" ->
                IF current_state = PAYMENT_STATE_CREATED
                THEN Updated(SaveStateInfo(rows, p, PAYMENT_STATE_PENDING, webhook_data), cc, fc, TRUE)
                ELSE Updated(SaveInfo(rows, p, webhook_data), cc, fc, FALSE)
          [] branch = "cancelled" ->
                IF current_state # PAYMENT_STATE_CANCELED
                THEN Updated(SaveStateInfo(rows, p, PAYMENT_STATE_CANCELED, webhook_data), cc, fc, TRUE)
                ELSE Updated(rows, cc, fc, FALSE)
          [] OTHER -> Updated(SaveInfo(rows, p, webhook_data), cc, fc, FALSE)

\* Data handed to process_webhook_payment_update.
UpdateData ==
    {[k \in {"status"} |-> <<st>>] : st \in {"Success", "paid", "Failed", "Pending", "Canceled", "Bogus"}}

\* One call of process_webhook_payment_update; probe records the call, the
\* state it found and the value it returned.
StatusUpdate ==
    /\ probe = NoProbe \/ (probe.fn = "update" /\ probe.count < MaxUpdates)
    /\ \E p \in {q \in Payments : EuPagoFamily(q)}, data \in UpdateData :
          LET r == process_webhook_payment_update(db, confirmCalls, failCalls, p, data)
          IN  /\ Applied(r)
              /\ probe' = [fn |-> "update", payment |-> p, data |-> data, found |-> db[p].state,
                           changed |-> r.changed,
                           count |-> IF probe = NoProbe THEN 1 ELSE probe.count + 1]

NextUpdate == StatusUpdate

SpecUpdate == Init /\ [][NextUpdate]_vars

\* C36: process_webhook_payment_update returns true exactly when it changed
\* the state of the payment; for a Completed status on a Confirmed or Refunded
\* payment it changes nothing and returns false; called again with the same
\* data it returns false.
C36_ReturnsWhetherStateChanged ==
    [][(probe'.fn = "update" /\ probe' # probe)
       => LET p == probe'.payment
          IN  /\ probe'.changed <=> db'[p].state # db[p].state
              /\ (/\ WebhookUpdateBranch(ResponseStatus(probe'.data)) = "completed"
                  /\ db[p].state \in {PAYMENT_STATE_CONFIRMED, PAYMENT_STATE_REFUNDED})
                 => /\ ~probe'.changed
                    /\ db' = db
                    /\ confirmCalls' = confirmCalls
              /\ (/\ probe.fn = "update"
                  /\ probe.payment = p
                  /\ probe.data = probe'.data)
                 => ~probe'.changed]_vars

\* ------------------------------------------------------------------------
\* Requests of every method and body kind
\* ------------------------------------------------------------------------

FormatRequests ==
    {Req(m, q, EmptyDict, k,
         IF k = "json" THEN PlainBody("none", Flat(IdentifierOf("p1"), <<"Paid">>)) ELSE NoBody,
         NoSignature, "", "none") :
        m \in {"GET", "POST", "PUT"},
        k \in {"json", "jsonarray", "form", "badutf8"},
        q \in {EmptyDict, V1Params(IdentifierOf("p1"), Reference1)}}

NotifyFormat == \E req \in FormatRequests : deliveries < MaxFormatDeliveries /\ Handle(req)

NextFormat == NotifyFormat

SpecFormat == Init /\ [][NextFormat]_vars

\* json.loads(body) succeeds
BodyParsesAsJson(req) == req.bodyKind \in {"json", "jsonarray"}

\* C37: a request is handled by the v2 handler exactly when its method is POST
\* and its body parses as JSON; every other request is handled by the v1
\* handler.
C37_FormatDetection ==
    [][deliveries' = deliveries + 1
       => DetectFormat(request') =
             IF request'.method = "POST" /\ BodyParsesAsJson(request') THEN "v2" ELSE "v1"]_vars

\* ------------------------------------------------------------------------
\* A return-URL request overlapping Completed deliveries for p1
\* ------------------------------------------------------------------------

\* EuPagoReturnView.dispatch: the payment object is loaded from the committed
\* row; probe records the status segment of the URL.
ReturnDispatch(w, status) ==
    /\ probe = NoProbe
    /\ workers[w].pc = "idle"
    /\ workers' = [workers EXCEPT ![w] =
                     [pc |-> "return", payment |-> "p1", state |-> db["p1"].state,
                      info |-> db["p1"].info, data |-> EmptyDict, atomic |-> FALSE, wrote |-> FALSE]]
    /\ probe' = [fn |-> "return", status |-> status]
    /\ UNCHANGED <<db, settings, environ, secret_file, confirmCalls, failCalls, request, response,
                   located, deliveries>>

\* EuPagoReturnView.get on the object loaded by dispatch: save(update_fields)
\* writes the fields the view assigned, the other columns of the row stay as
\* they are in the database.
ReturnViewSave(w) ==
    /\ workers[w].pc = "return"
    /\ ~LockedByOther(w, workers[w].payment)
    /\ LET p == workers[w].payment
           loaded == [state |-> workers[w].state, info |-> workers[w].info]
           done == ReturnViewGet([db EXCEPT ![p] = loaded], confirmCalls, failCalls, p,
                                 probe.status, "none").db[p]
       IN  db' = [db EXCEPT ![p].state = IF done.state # loaded.state THEN done.state ELSE @,
                            ![p].info = IF done.info # loaded.info THEN done.info ELSE @]
    /\ workers' = [workers EXCEPT ![w] = Idle]
    /\ UNCHANGED <<probe, settings, environ, secret_file, confirmCalls, failCalls, request, response,
                   located, deliveries>>

NextRace ==
    \/ \E req \in ConcRequests : Receive("w1", req)
    \/ CheckState("w1")
    \/ SaveMerged("w1")
    \/ Confirm("w1")
    \/ Respond("w1")
    \/ \E status \in {"success", "back"} : ReturnDispatch("w2", status)
    \/ ReturnViewSave("w2")

SpecRace == Init /\ [][NextRace]_vars

\* Both the return view and the webhook worker have finished.
RaceOver(status) ==
    /\ probe.fn = "return"
    /\ probe.status = status
    /\ \A w \in Workers : workers[w].pc = "idle"
    /\ deliveries > 0

\* C38: once a return request with status back and the Completed deliveries
\* for the Pending payment p1 have finished, in whatever order their steps
\* were taken, p1 is Confirmed if confirm() was executed.
C38_BackKeepsConfirmed ==
    (RaceOver("back") /\ confirmCalls["p1"] > 0)
        => db["p1"].state = PAYMENT_STATE_CONFIRMED

\* C39: once a return request with status success and the Completed
\* deliveries for the Pending payment p1 have finished, in whatever order
\* their steps were taken, p1 is Confirmed and confirm() was called exactly
\* once; no step of the return view changes a payment's state.
C39_SuccessReturnConverges ==
    /\ RaceOver("success")
          => /\ db["p1"].state = PAYMENT_STATE_CONFIRMED
             /\ confirmCalls["p1"] = 1
    /\ (probe.fn = "return" /\ probe.status = "success" /\ confirmCalls["p1"] > 0 /\ workers["w1"].pc = "idle")
          => db["p1"].state = PAYMENT_STATE_CONFIRMED

\* The return view loaded p1 before the confirmation was committed and saved
\* its info afterwards: the info carries the view's flag and not the handler's
\* stamp, and p1 is Confirmed through one confirm().
C39_Witness ==
    /\ RaceOver("success")
    /\ db["p1"].state = PAYMENT_STATE_CONFIRMED
    /\ confirmCalls["p1"] = 1
    /\ "success_url_returned" \in DOMAIN db["p1"].info
    /\ "webhook_confirmed_at" \notin DOMAIN db["p1"].info

\* C40: when an encrypted v2 notification is decrypted and its payment is
\* located, the secret the decryptor used is the secret the verifier uses,
\* and both are the webhook secret of the organizer of that payment.
C40_OneSecretForDecryptAndVerify ==
    [][(/\ deliveries' = deliveries + 1
        /\ IsV2(request')
        /\ request'.body.encrypted
        /\ located' # NoPayment)
       => /\ WebhookSecretDecrypt(WebhookSecretV2) = SecretOf(PaymentRow[located'].organizer)
          /\ SecretOf(PaymentRow[located'].organizer) = ChainSecret(PaymentRow[located'].organizer)]_vars

====
